---- MODULE Spec2Model ----
(***************************************************************************)
(* Medical-Receipts-OCR: the Celery stage chain of app/tasks.py, the batch *)
(* counter batch_count:<batch_id> kept in Redis, the progress events       *)
(* published per task, and the concurrent batch inference executor.        *)
(***************************************************************************)
EXTENDS Integers, Sequences, FiniteSets, TLC

\* ------------------------------------------------------------------ bounds
\* Number of Document Jobs the model submits (batch members and standalone).
MaxJobs == 2
\* Number of pages of the document whose non-skipped pages go to run_batch_inference.
MaxPages == 3
\* Files uploaded in one multi-document request.
MaxFiles == 4

Jobs == 1..MaxJobs

\* The Redis key batch_count:<batch_id>: <<v>> when it holds v, <<>> when it
\* does not exist.
NoKey == <<>>
\* batch_id = None: a standalone job.
Null == "null"
BatchId == "b1"

VARIABLES
    counter,     \* the Redis key batch_count:b1: <<value>>, or NoKey
    batch_id,    \* batch_id[j]: BatchId, or Null for a standalone job
    pc,          \* pc[j]: where job j's chain stands
    text,        \* text[j]: the OCR text carried to STRUCTURE ("none" before OCR returned)
    result,      \* result[j]: what STRUCTURE parsed ("none", "null", "json", "raw")
    remaining,   \* remaining[j]: the value r.decr returned to job j (local variable)
    decs,        \* decs[j]: number of r.decr calls job j has performed
    threw,       \* threw[j]: the stage whose body raised, or "none"
    evs,         \* evs[j]: the events published on task_updates:<task_id of j>, in order
    hist,        \* hist[j]: stage starts and ends of job j, in order
    llm_calls,   \* llm_calls[j]: structuring calls job j has made to the LLM adapter
    interim,     \* interim[j]: the directory INTERIM_DIR/<task_id of j> ("absent", "present", "deleted")
    infer,       \* state of one run_batch_inference call
    sub,         \* state of one multi-document submission request
    page,        \* one page handed to a template classifier, and its outcome
    doc,         \* state of one OCR stage run over a document's pages
    geo,         \* one run of the identity-card cropping routine
    bus,         \* the progress event bus: publications and websocket clients
    wk           \* one Document Job with the workers that run its stages

pvars == <<counter, batch_id, pc, text, result, remaining, decs, threw, evs, hist,
           llm_calls, interim>>
ovars == <<sub, page, doc>>
xvars == <<geo, bus, wk>>
vars == <<pvars, infer, ovars, xvars>>

\* ----------------------------------------------------------------- helpers
\* Redis DECR: a missing key counts as 0, so the result is -1.
RedisDecr(c) == IF c = NoKey THEN -1 ELSE c[1] - 1

Repeat(e, k) == [i \in 1..k |-> e]

\* publish_update(task_id, message): the message goes out on the task's
\* channel; while r.publish raises, the exception is printed and nothing goes
\* out.
publish_update(log, names) == IF bus.publish_fails THEN log ELSE log \o names

\* Progress events an OCR pipeline publishes when it runs to its end.
OcrProgressEvents == 5
\* Progress events already published at the points where the OCR pipeline raises:
\* extracting the images from the PDF (after the first event), batch inference
\* and joining its results (after the fourth).
OcrRaisePoints == {1, OcrProgressEvents - 1}

InBatch(j) == batch_id[j] = BatchId
BatchJobs == {j \in Jobs : InBatch(j)}
Allocated == {j \in Jobs : pc[j] # "new"}

\* --------------------------------------------------------------- pipeline
InitPipeline ==
    /\ counter = NoKey
    /\ batch_id = [j \in Jobs |-> Null]
    /\ pc = [j \in Jobs |-> "new"]
    /\ text = [j \in Jobs |-> "none"]
    /\ result = [j \in Jobs |-> "none"]
    /\ remaining = [j \in Jobs |-> 0]
    /\ decs = [j \in Jobs |-> 0]
    /\ threw = [j \in Jobs |-> "none"]
    /\ evs = [j \in Jobs |-> <<>>]
    /\ hist = [j \in Jobs |-> <<>>]
    /\ llm_calls = [j \in Jobs |-> 0]
    /\ interim = [j \in Jobs |-> "absent"]

\* The chains of process_document_pipeline, process_janzour_pipeline and
\* process_massara_pipeline have the same shape (their OCR tasks differ only in
\* the pipeline they call), so one set of actions stands for the three. Batches
\* are those of POST /batch-process-pdf/; the template batch endpoints hand the
\* whole batch to a task that app/tasks.py does not define.

InferIdle == [phase |-> "idle", impl |-> "none", jobs |-> <<>>, st |-> <<>>,
              slots |-> <<>>, answer |-> <<>>, calls |-> <<>>, order |-> <<>>,
              out |-> <<>>]

\* POST /process-pdf/: one standalone job is enqueued with batch_id = None.
process_pdf ==
    /\ \E j \in Jobs :
        /\ pc[j] = "new"
        /\ \A i \in Jobs : i < j => pc[i] # "new"
        /\ pc' = [pc EXCEPT ![j] = "queued"]
    /\ UNCHANGED <<counter, batch_id, text, result, remaining, decs, threw, evs, hist,
                   llm_calls, interim, infer, ovars, xvars>>

\* Mutant: redis.set is not awaited, the key is never written.
batch_process_pdf_set_unwritten ==
    /\ BatchJobs = {}
    /\ \E n \in 1..(MaxJobs - Cardinality(Allocated)) :
        LET first == Cardinality(Allocated) + 1
            members == first..(first + n - 1)
        IN /\ counter' = counter
           /\ batch_id' = [j \in Jobs |-> IF j \in members THEN BatchId ELSE batch_id[j]]
           /\ pc' = [j \in Jobs |-> IF j \in members THEN "accepted" ELSE pc[j]]
    /\ UNCHANGED <<text, result, remaining, decs, threw, evs, hist, llm_calls, interim,
                   infer, ovars, xvars>>

\* Mutant: the counter is initialised to one less than the accepted documents.
batch_process_pdf_set_short ==
    /\ BatchJobs = {}
    /\ \E n \in 1..(MaxJobs - Cardinality(Allocated)) :
        LET first == Cardinality(Allocated) + 1
            members == first..(first + n - 1)
        IN /\ counter' = <<n - 1>>
           /\ batch_id' = [j \in Jobs |-> IF j \in members THEN BatchId ELSE batch_id[j]]
           /\ pc' = [j \in Jobs |-> IF j \in members THEN "accepted" ELSE pc[j]]
    /\ UNCHANGED <<text, result, remaining, decs, threw, evs, hist, llm_calls, interim,
                   infer, ovars, xvars>>

\* POST /batch-process-pdf/, first half: a batch_id is generated and the counter
\* is set to len(valid_files) before any job is enqueued.
batch_process_pdf_set ==
    /\ BatchJobs = {}
    /\ \E n \in 1..(MaxJobs - Cardinality(Allocated)) :
        LET first == Cardinality(Allocated) + 1
            members == first..(first + n - 1)
        IN /\ counter' = <<n>>
           /\ batch_id' = [j \in Jobs |-> IF j \in members THEN BatchId ELSE batch_id[j]]
           /\ pc' = [j \in Jobs |-> IF j \in members THEN "accepted" ELSE pc[j]]
    /\ UNCHANGED <<text, result, remaining, decs, threw, evs, hist, llm_calls, interim,
                   infer, ovars, xvars>>

\* POST /batch-process-pdf/, the loop: the accepted files are enqueued one by one.
batch_process_pdf_enqueue ==
    /\ \E j \in Jobs :
        /\ pc[j] = "accepted"
        /\ \A i \in Jobs : i < j => pc[i] # "accepted"
        /\ pc' = [pc EXCEPT ![j] = "queued"]
    /\ UNCHANGED <<counter, batch_id, text, result, remaining, decs, threw, evs, hist,
                   llm_calls, interim, infer, ovars, xvars>>

\* The celery chain OCR -> STRUCTURE -> VALIDATE: the next task is enqueued with
\* the return value of the one before; a task that raises ends the chain.
ChainSkipsStructure(stage) ==
    CASE stage = "start" -> "ocr_q"
      [] stage = "OCR" -> "val_q"
      [] stage = "STRUCTURE" -> "val_q"
      [] stage = "VALIDATE" -> "done"
chain(stage) ==
    CASE stage = "start" -> "ocr_q"
      [] stage = "OCR" -> "gpt_q"
      [] stage = "STRUCTURE" -> "val_q"
      [] stage = "VALIDATE" -> "done"

\* Mutant: the chain is applied first and "started" is left for later.
process_document_pipeline_chain_first(j) ==
    /\ pc[j] = "queued"
    /\ pc' = [pc EXCEPT ![j] = chain("start")]
    /\ UNCHANGED <<counter, batch_id, text, result, remaining, decs, threw, evs, hist,
                   llm_calls, interim, infer, ovars, xvars>>

\* Orchestrator task: publish "started", then apply the chain.
process_document_pipeline(j) ==
    /\ pc[j] = "queued"
    /\ evs' = [evs EXCEPT ![j] = publish_update(@, <<"started">>)]
    /\ pc' = [pc EXCEPT ![j] = chain("start")]
    /\ UNCHANGED <<counter, batch_id, text, result, remaining, decs, threw, hist,
                   llm_calls, interim, infer, ovars, xvars>>

\* A worker takes the OCR task of the chain.
process_ocr_task_start(j) ==
    /\ pc[j] = "ocr_q"
    /\ pc' = [pc EXCEPT ![j] = "ocr_run"]
    /\ hist' = [hist EXCEPT ![j] = Append(@, "OCR")]
    /\ interim' = [interim EXCEPT ![j] = "present"]
    /\ UNCHANGED <<counter, batch_id, text, result, remaining, decs, threw, evs,
                   llm_calls, infer, ovars, xvars>>

\* The OCR pipeline returns (text, skipped): the task returns its dict.
process_ocr_task_return(j) ==
    /\ pc[j] = "ocr_run"
    /\ \E t \in {"empty", "nonempty"} : text' = [text EXCEPT ![j] = t]
    /\ evs' = [evs EXCEPT ![j] = publish_update(@, Repeat("progress", OcrProgressEvents))]
    /\ hist' = [hist EXCEPT ![j] = Append(@, "OCR_ret")]
    /\ pc' = [pc EXCEPT ![j] = chain("OCR")]
    /\ UNCHANGED <<counter, batch_id, result, remaining, decs, threw, llm_calls,
                   interim, infer, ovars, xvars>>

\* Mutant: the exception is swallowed after "error" is published, so the chain
\* goes on with the next task.
process_ocr_task_raise_swallowed(j) ==
    /\ pc[j] = "ocr_run"
    /\ evs' = [evs EXCEPT ![j] = publish_update(@, <<"progress", "error">>)]
    /\ threw' = [threw EXCEPT ![j] = "OCR"]
    /\ text' = [text EXCEPT ![j] = "empty"]
    /\ hist' = [hist EXCEPT ![j] = Append(@, "OCR_raise")]
    /\ pc' = [pc EXCEPT ![j] = chain("OCR")]
    /\ UNCHANGED <<counter, batch_id, result, remaining, decs, llm_calls, interim,
                   infer, ovars, xvars>>

\* The OCR pipeline raises inside the task's try block: "error" is published
\* and the exception is re-raised. (Failures of the infrastructure itself, Redis
\* being unreachable or the interim directory not being creatable before the
\* try block, are outside the model.)
process_ocr_task_raise(j) ==
    /\ pc[j] = "ocr_run"
    /\ \E k \in OcrRaisePoints :
        evs' = [evs EXCEPT ![j] =
                    publish_update(publish_update(@, Repeat("progress", k)), <<"error">>)]
    /\ threw' = [threw EXCEPT ![j] = "OCR"]
    /\ hist' = [hist EXCEPT ![j] = Append(@, "OCR_raise")]
    /\ pc' = [pc EXCEPT ![j] = "failed"]
    /\ UNCHANGED <<counter, batch_id, text, result, remaining, decs, llm_calls,
                   interim, infer, ovars, xvars>>

\* A worker takes the STRUCTURE task with the OCR task's return value (always a
\* dict in a chain, so the "Invalid OCR result type" return is not reached).
process_gpt_extraction_start(j) ==
    /\ pc[j] = "gpt_q"
    /\ pc' = [pc EXCEPT ![j] = "gpt_run"]
    /\ hist' = [hist EXCEPT ![j] = Append(@, "STRUCTURE")]
    /\ UNCHANGED <<counter, batch_id, text, result, remaining, decs, threw, evs,
                   llm_calls, interim, infer, ovars, xvars>>

\* Mutant: the empty text is sent to the LLM all the same.
process_gpt_extraction_empty_extracts(j) ==
    /\ pc[j] = "gpt_run"
    /\ text[j] = "empty"
    /\ evs' = [evs EXCEPT ![j] =
                  publish_update(@, <<"progress", "progress", "progress", "step_completed">>)]
    /\ llm_calls' = [llm_calls EXCEPT ![j] = @ + 1]
    /\ result' = [result EXCEPT ![j] = "null"]
    /\ hist' = [hist EXCEPT ![j] = Append(@, "STRUCTURE_ret")]
    /\ pc' = [pc EXCEPT ![j] = chain("STRUCTURE")]
    /\ UNCHANGED <<counter, batch_id, text, remaining, decs, threw, interim, infer,
                   ovars, xvars>>

\* Empty OCR text: "completed" with an empty result is published, no LLM call is
\* made, and the task goes on to publish "step_completed" and return result_data.
process_gpt_extraction_empty(j) ==
    /\ pc[j] = "gpt_run"
    /\ text[j] = "empty"
    /\ evs' = [evs EXCEPT ![j] = publish_update(@, <<"completed", "step_completed">>)]
    /\ result' = [result EXCEPT ![j] = "null"]
    /\ hist' = [hist EXCEPT ![j] = Append(@, "STRUCTURE_ret")]
    /\ pc' = [pc EXCEPT ![j] = chain("STRUCTURE")]
    /\ UNCHANGED <<counter, batch_id, text, remaining, decs, threw, llm_calls, interim,
                   infer, ovars, xvars>>

\* Mutant: an answer that does not parse fails the task like any exception.
process_gpt_extraction_parse_raises(j) ==
    /\ pc[j] = "gpt_run"
    /\ text[j] = "nonempty"
    /\ \E r \in {"json", "raw"} :
        /\ result' = [result EXCEPT ![j] = r]
        /\ evs' = [evs EXCEPT ![j] =
                      publish_update(@, <<"progress", "progress", "progress",
                                          IF r = "raw" THEN "error" ELSE "step_completed">>)]
        /\ hist' = [hist EXCEPT ![j] =
                      Append(@, IF r = "raw" THEN "STRUCTURE_raise" ELSE "STRUCTURE_ret")]
        /\ pc' = [pc EXCEPT ![j] = IF r = "raw" THEN "failed" ELSE chain("STRUCTURE")]
    /\ llm_calls' = [llm_calls EXCEPT ![j] = @ + 1]
    /\ UNCHANGED <<counter, batch_id, text, remaining, decs, threw, interim, infer,
                   ovars, xvars>>

\* The LLM answers: the string is parsed as JSON, or wrapped as raw_response.
process_gpt_extraction_return(j) ==
    /\ pc[j] = "gpt_run"
    /\ text[j] = "nonempty"
    /\ \E r \in {"json", "raw"} : result' = [result EXCEPT ![j] = r]
    /\ evs' = [evs EXCEPT ![j] =
                  publish_update(@, <<"progress", "progress", "progress", "step_completed">>)]
    /\ hist' = [hist EXCEPT ![j] = Append(@, "STRUCTURE_ret")]
    /\ pc' = [pc EXCEPT ![j] = chain("STRUCTURE")]
    /\ llm_calls' = [llm_calls EXCEPT ![j] = @ + 1]
    /\ UNCHANGED <<counter, batch_id, text, remaining, decs, threw, interim, infer,
                   ovars, xvars>>

\* run_gpt_pipeline raises (building the client, or in the call, which first
\* publishes a "failed" progress event): "error" is published; a batch member
\* goes on to decrement the counter, a standalone job re-raises at once.
process_gpt_extraction_raise(j) ==
    /\ pc[j] = "gpt_run"
    /\ text[j] = "nonempty"
    /\ \E inCall \in BOOLEAN :
        /\ evs' = [evs EXCEPT ![j] =
                      publish_update(@, <<"progress", "progress">>
                                        \o (IF inCall THEN <<"progress">> ELSE <<>>)
                                        \o <<"error">>)]
        /\ llm_calls' = [llm_calls EXCEPT ![j] = IF inCall THEN @ + 1 ELSE @]
    /\ threw' = [threw EXCEPT ![j] = "STRUCTURE"]
    /\ IF InBatch(j)
         THEN /\ pc' = [pc EXCEPT ![j] = "gpt_decr"]
              /\ hist' = hist
         ELSE /\ pc' = [pc EXCEPT ![j] = "failed"]
              /\ hist' = [hist EXCEPT ![j] = Append(@, "STRUCTURE_raise")]
    /\ UNCHANGED <<counter, batch_id, text, result, remaining, decs, interim, infer,
                   ovars, xvars>>

\* Mutant: the except branch publishes "batch_completed" whatever r.decr returned.
process_gpt_extraction_decr_unchecked(j) ==
    /\ pc[j] = "gpt_decr"
    /\ counter' = <<RedisDecr(counter)>>
    /\ remaining' = [remaining EXCEPT ![j] = RedisDecr(counter)]
    /\ decs' = [decs EXCEPT ![j] = @ + 1]
    /\ pc' = [pc EXCEPT ![j] = "gpt_bc"]
    /\ UNCHANGED <<batch_id, text, result, threw, evs, hist, llm_calls, interim, infer,
                   ovars, xvars>>

\* except branch, batch_id set: remaining = r.decr("batch_count:<batch_id>").
process_gpt_extraction_decr(j) ==
    /\ pc[j] = "gpt_decr"
    /\ counter' = <<RedisDecr(counter)>>
    /\ remaining' = [remaining EXCEPT ![j] = RedisDecr(counter)]
    /\ decs' = [decs EXCEPT ![j] = @ + 1]
    /\ IF RedisDecr(counter) <= 0
         THEN /\ pc' = [pc EXCEPT ![j] = "gpt_bc"]
              /\ hist' = hist
         ELSE /\ pc' = [pc EXCEPT ![j] = "failed"]
              /\ hist' = [hist EXCEPT ![j] = Append(@, "STRUCTURE_raise")]
    /\ UNCHANGED <<batch_id, text, result, threw, evs, llm_calls, interim, infer,
                   ovars, xvars>>

\* except branch, remaining <= 0: "batch_completed" is published (the key is
\* left in place), then the exception is re-raised.
process_gpt_extraction_batch_completed(j) ==
    /\ pc[j] = "gpt_bc"
    /\ evs' = [evs EXCEPT ![j] = publish_update(@, <<"batch_completed">>)]
    /\ hist' = [hist EXCEPT ![j] = Append(@, "STRUCTURE_raise")]
    /\ pc' = [pc EXCEPT ![j] = "failed"]
    /\ UNCHANGED <<counter, batch_id, text, result, remaining, decs, threw, llm_calls,
                   interim, infer, ovars, xvars>>

\* A worker takes the VALIDATE task (extraction_result never holds "error" in a
\* chain) and publishes the "validation" progress event.
process_validation_task_start(j) ==
    /\ pc[j] = "val_q"
    /\ evs' = [evs EXCEPT ![j] = publish_update(@, <<"progress">>)]
    /\ hist' = [hist EXCEPT ![j] = Append(@, "VALIDATE")]
    /\ pc' = [pc EXCEPT ![j] = "val_run"]
    /\ UNCHANGED <<counter, batch_id, text, result, remaining, decs, threw, llm_calls,
                   interim, infer, ovars, xvars>>

\* Mutant: an exception of r.publish escapes publish_update into the except
\* branch, which returns without the batch accounting.
process_validation_task_return_publish_raises(j) ==
    /\ pc[j] = "val_run"
    /\ evs' = [evs EXCEPT ![j] = publish_update(@, <<"completed">>)]
    /\ IF InBatch(j) /\ ~bus.publish_fails
         THEN /\ pc' = [pc EXCEPT ![j] = "val_decr"]
              /\ hist' = hist
         ELSE /\ pc' = [pc EXCEPT ![j] = chain("VALIDATE")]
              /\ hist' = [hist EXCEPT ![j] = Append(@, "VALIDATE_ret")]
    /\ interim' = [interim EXCEPT ![j] = "deleted"]
    /\ UNCHANGED <<counter, batch_id, text, result, remaining, decs, threw, llm_calls,
                   infer, ovars, xvars>>

\* Mutant: a batch member does its batch accounting first and has not
\* published "completed" when it decrements.
process_validation_task_return_decr_first(j) ==
    /\ pc[j] = "val_run"
    /\ IF InBatch(j)
         THEN /\ pc' = [pc EXCEPT ![j] = "val_decr"]
              /\ hist' = hist
              /\ evs' = evs
         ELSE /\ pc' = [pc EXCEPT ![j] = chain("VALIDATE")]
              /\ hist' = [hist EXCEPT ![j] = Append(@, "VALIDATE_ret")]
              /\ evs' = [evs EXCEPT ![j] = publish_update(@, <<"completed">>)]
    /\ interim' = [interim EXCEPT ![j] = "deleted"]
    /\ UNCHANGED <<counter, batch_id, text, result, remaining, decs, threw, llm_calls,
                   infer, ovars, xvars>>

\* Mutant: the batch accounting is entered whether batch_id is set or not.
process_validation_task_return_unguarded(j) ==
    /\ pc[j] = "val_run"
    /\ evs' = [evs EXCEPT ![j] = publish_update(@, <<"completed">>)]
    /\ pc' = [pc EXCEPT ![j] = "val_decr"]
    /\ interim' = [interim EXCEPT ![j] = "deleted"]
    /\ UNCHANGED <<counter, batch_id, text, result, remaining, decs, threw, hist,
                   llm_calls, infer, ovars, xvars>>

\* validate_json_with_images returns a review or {error}: the images are
\* removed and the final "completed" is published; a batch member goes on to
\* the batch accounting, a standalone job returns.
process_validation_task_return(j) ==
    /\ pc[j] = "val_run"
    /\ evs' = [evs EXCEPT ![j] = publish_update(@, <<"completed">>)]
    /\ IF InBatch(j)
         THEN /\ pc' = [pc EXCEPT ![j] = "val_decr"]
              /\ hist' = hist
         ELSE /\ pc' = [pc EXCEPT ![j] = chain("VALIDATE")]
              /\ hist' = [hist EXCEPT ![j] = Append(@, "VALIDATE_ret")]
    /\ interim' = [interim EXCEPT ![j] = "deleted"]
    /\ UNCHANGED <<counter, batch_id, text, result, remaining, decs, threw, llm_calls,
                   infer, ovars, xvars>>

\* try branch, batch_id set: remaining = r.decr("batch_count:<batch_id>").
process_validation_task_decr(j) ==
    /\ pc[j] = "val_decr"
    /\ counter' = <<RedisDecr(counter)>>
    /\ remaining' = [remaining EXCEPT ![j] = RedisDecr(counter)]
    /\ decs' = [decs EXCEPT ![j] = @ + 1]
    /\ IF RedisDecr(counter) <= 0
         THEN /\ pc' = [pc EXCEPT ![j] = "val_bc"]
              /\ hist' = hist
         ELSE /\ pc' = [pc EXCEPT ![j] = chain("VALIDATE")]
              /\ hist' = [hist EXCEPT ![j] = Append(@, "VALIDATE_ret")]
    /\ UNCHANGED <<batch_id, text, result, threw, evs, llm_calls, interim, infer,
                   ovars, xvars>>

\* try branch, remaining <= 0: "batch_completed" is published.
process_validation_task_batch_completed(j) ==
    /\ pc[j] = "val_bc"
    /\ evs' = [evs EXCEPT ![j] = publish_update(@, <<"batch_completed">>)]
    /\ pc' = [pc EXCEPT ![j] = "val_del"]
    /\ UNCHANGED <<counter, batch_id, text, result, remaining, decs, threw, hist,
                   llm_calls, interim, infer, ovars, xvars>>

\* try branch, after the publish: r.delete("batch_count:<batch_id>"), return.
process_validation_task_delete(j) ==
    /\ pc[j] = "val_del"
    /\ counter' = NoKey
    /\ hist' = [hist EXCEPT ![j] = Append(@, "VALIDATE_ret")]
    /\ pc' = [pc EXCEPT ![j] = chain("VALIDATE")]
    /\ UNCHANGED <<batch_id, text, result, remaining, decs, threw, evs, llm_calls,
                   interim, infer, ovars, xvars>>

\* Mutant: the except branch returns without publishing anything.
process_validation_task_raise_silent(j) ==
    /\ pc[j] = "val_run"
    /\ threw' = [threw EXCEPT ![j] = "VALIDATE"]
    /\ hist' = [hist EXCEPT ![j] = Append(@, "VALIDATE_ret")]
    /\ pc' = [pc EXCEPT ![j] = chain("VALIDATE")]
    /\ UNCHANGED <<counter, batch_id, text, result, remaining, decs, evs, llm_calls,
                   interim, infer, ovars, xvars>>

\* Mutant: the except branch publishes "error" and re-raises.
process_validation_task_raise_error(j) ==
    /\ pc[j] = "val_run"
    /\ threw' = [threw EXCEPT ![j] = "VALIDATE"]
    /\ evs' = [evs EXCEPT ![j] = publish_update(@, <<"error">>)]
    /\ hist' = [hist EXCEPT ![j] = Append(@, "VALIDATE_raise")]
    /\ pc' = [pc EXCEPT ![j] = "failed"]
    /\ UNCHANGED <<counter, batch_id, text, result, remaining, decs, llm_calls,
                   interim, infer, ovars, xvars>>

\* validate_json_with_images raises (building the client, serialising the
\* result): the except branch publishes "completed" with validation_error and
\* returns extraction_result; the counter is not touched.
process_validation_task_raise(j) ==
    /\ pc[j] = "val_run"
    /\ threw' = [threw EXCEPT ![j] = "VALIDATE"]
    /\ evs' = [evs EXCEPT ![j] = publish_update(@, <<"completed">>)]
    /\ hist' = [hist EXCEPT ![j] = Append(@, "VALIDATE_ret")]
    /\ pc' = [pc EXCEPT ![j] = chain("VALIDATE")]
    /\ UNCHANGED <<counter, batch_id, text, result, remaining, decs, llm_calls,
                   interim, infer, ovars, xvars>>

\* No request, page or document is being handled.
SubIdle == [phase |-> "idle", endpoint |-> "none", files |-> 0, valid |-> 0,
            batch_ids |-> 0, saved |-> 0, key |-> NoKey, queue |-> <<>>]
PageIdle == [phase |-> "idle"]
DocIdle == [phase |-> "idle"]
GeoIdle == [phase |-> "idle"]
Connections == {"c1", "c2"}
ConnIdle == [state |-> "none", inbox |-> <<>>, received |-> <<>>, sub_at |-> 0, end_at |-> 0]
BusIdle == [calls |-> 0, published |-> <<>>, publish_fails |-> FALSE,
            conn |-> [c \in Connections |-> ConnIdle]]
WkIdle == [phase |-> "idle"]

Init ==
    /\ InitPipeline
    /\ infer = InferIdle
    /\ sub = SubIdle
    /\ page = PageIdle
    /\ doc = DocIdle
    /\ geo = GeoIdle
    /\ bus = BusIdle
    /\ wk = WkIdle

Next ==
    \/ process_pdf
    \/ batch_process_pdf_set
    \/ batch_process_pdf_enqueue
    \/ \E j \in Jobs : process_document_pipeline(j)
    \/ \E j \in Jobs : process_ocr_task_start(j)
    \/ \E j \in Jobs : process_ocr_task_return(j)
    \/ \E j \in Jobs : process_ocr_task_raise(j)
    \/ \E j \in Jobs : process_gpt_extraction_start(j)
    \/ \E j \in Jobs : process_gpt_extraction_empty(j)
    \/ \E j \in Jobs : process_gpt_extraction_return(j)
    \/ \E j \in Jobs : process_gpt_extraction_raise(j)
    \/ \E j \in Jobs : process_gpt_extraction_decr(j)
    \/ \E j \in Jobs : process_gpt_extraction_batch_completed(j)
    \/ \E j \in Jobs : process_validation_task_start(j)
    \/ \E j \in Jobs : process_validation_task_return(j)
    \/ \E j \in Jobs : process_validation_task_raise(j)
    \/ \E j \in Jobs : process_validation_task_decr(j)
    \/ \E j \in Jobs : process_validation_task_batch_completed(j)
    \/ \E j \in Jobs : process_validation_task_delete(j)

\* The pipeline on a Redis connection whose r.publish either works or raises
\* (connection refused, timeout) for as long as the jobs run.
InitOutage ==
    /\ InitPipeline
    /\ infer = InferIdle
    /\ sub = SubIdle
    /\ page = PageIdle
    /\ doc = DocIdle
    /\ geo = GeoIdle
    /\ \E f \in BOOLEAN : bus = [BusIdle EXCEPT !.publish_fails = f]
    /\ wk = WkIdle

SpecOutage == InitOutage /\ [][Next]_vars

\* --------------------------------------------------- batch inference executor
Pages == 1..MaxPages

\* The two implementations: app/core/document/pdf_processor.py (used by the
\* pipelines) and app/core/ocr/inference.py.
Impls == {"pdf_processor", "ocr_inference"}

RECURSIVE Ascending(_)
\* The elements of a set of page indices as a sequence, in ascending order.
Ascending(S) ==
    IF S = {} THEN <<>>
    ELSE LET m == CHOOSE x \in S : \A y \in S : x <= y
         IN <<m>> \o Ascending(S \ {m})

Pending == [kind |-> "pending", page |-> 0]

\* asyncio.gather(*tasks, return_exceptions=True): the result of the i-th
\* awaitable is stored at position i of the result list, whenever it completes.
GatherInCompletionOrder(slots, i, r) ==
    LET k == CHOOSE x \in 1..Len(slots) :
                 /\ slots[x] = Pending
                 /\ \A y \in 1..(x - 1) : slots[y] # Pending
    IN [slots EXCEPT ![k] = r]
gather(slots, i, r) == [slots EXCEPT ![i] = r]

\* A post-processing loop that leaves failed entries out of the returned list.
ProcessResultsDropsErrors(impl, slots) ==
    SelectSeq(slots, LAMBDA r : r.kind # "exc")
\* The loop after gather: pdf_processor.py turns an Exception into the string
\* "API Error: <class>: <message>"; inference.py returns the results as they are.
process_results(impl, slots) ==
    [i \in 1..Len(slots) |->
        IF impl = "pdf_processor" /\ slots[i].kind = "exc"
          THEN [kind |-> "api_error", page |-> slots[i].page]
          ELSE slots[i]]

\* What the caller is owed for a job whose task ended with answer a.
Outcome(impl, a) ==
    IF impl = "pdf_processor" /\ a.kind = "exc"
      THEN [kind |-> "api_error", page |-> a.page]
      ELSE a

\* run_batch_inference(batch_jobs) is called with the non-skipped pages of a
\* document, in page order; one coroutine is created per job and all are
\* handed to gather. pdf_processor.py returns [] at once for an empty list.
run_batch_inference_call ==
    /\ infer.phase = "idle"
    /\ \E impl \in Impls, S \in SUBSET Pages :
        LET jobs == Ascending(S)
            n == Len(jobs)
        IN infer' = [infer EXCEPT
                !.phase = IF n = 0 /\ impl = "pdf_processor" THEN "returned" ELSE "gathering",
                !.impl = impl,
                !.jobs = jobs,
                !.st = [i \in 1..n |-> "created"],
                !.slots = [i \in 1..n |-> Pending],
                !.answer = [i \in 1..n |-> Pending],
                !.calls = [i \in 1..n |-> 0]]
    /\ UNCHANGED <<pvars, ovars, xvars>>

\* The event loop starts the tasks in the order they were created; each runs
\* up to its adapter call (the await), unless encoding the image or obtaining
\* the client raises first, in which case the task returns the exception.
run_single_inference_task_start(i) ==
    /\ infer.phase = "gathering"
    /\ i \in 1..Len(infer.jobs)
    /\ infer.st[i] = "created"
    /\ \A k \in 1..(i - 1) : infer.st[k] # "created"
    /\ \/ infer' = [infer EXCEPT !.st[i] = "inflight", !.calls[i] = @ + 1]
       \/ LET r == [kind |-> "exc", page |-> infer.jobs[i]]
          IN infer' = [infer EXCEPT
                  !.st[i] = "done",
                  !.answer[i] = r,
                  !.order = Append(@, i),
                  !.slots = gather(@, i, r)]
    /\ UNCHANGED <<pvars, ovars, xvars>>

\* A task that issues its adapter call a second time after a failure.
run_single_inference_task_retry(i) ==
    /\ infer.phase = "gathering"
    /\ i \in 1..Len(infer.jobs)
    /\ infer.st[i] = "inflight"
    /\ \/ /\ infer.calls[i] < 2
          /\ infer' = [infer EXCEPT !.calls[i] = @ + 1]
       \/ LET r == [kind |-> "text", page |-> infer.jobs[i]]
          IN infer' = [infer EXCEPT
                  !.st[i] = "done",
                  !.answer[i] = r,
                  !.order = Append(@, i),
                  !.slots = gather(@, i, r)]
    /\ UNCHANGED <<pvars, ovars, xvars>>
\* An adapter call completes, in any order among those in flight, with text or
\* with an exception, which the task catches and returns as its value.
run_single_inference_task_done(i) ==
    /\ infer.phase = "gathering"
    /\ i \in 1..Len(infer.jobs)
    /\ infer.st[i] = "inflight"
    /\ \E kind \in {"text", "exc"} :
        LET r == [kind |-> kind, page |-> infer.jobs[i]]
        IN infer' = [infer EXCEPT
                !.st[i] = "done",
                !.answer[i] = r,
                !.order = Append(@, i),
                !.slots = gather(@, i, r)]
    /\ UNCHANGED <<pvars, ovars, xvars>>

\* gather resumes run_batch_inference once every task is done; the results are
\* post-processed and returned.
run_batch_inference_return ==
    /\ infer.phase = "gathering"
    /\ \A i \in 1..Len(infer.jobs) : infer.st[i] = "done"
    /\ infer' = [infer EXCEPT !.phase = "returned",
                              !.out = process_results(infer.impl, infer.slots)]
    /\ UNCHANGED <<pvars, ovars, xvars>>

NextInfer ==
    \/ run_batch_inference_call
    \/ \E i \in Pages : run_single_inference_task_start(i)
    \/ \E i \in Pages : run_single_inference_task_done(i)
    \/ run_batch_inference_return

SpecInfer == Init /\ [][NextInfer]_vars

Spec == Init /\ [][Next]_vars

\* The steps that the request handler's loop and the Celery workers take by
\* themselves: a request that has set the counter enqueues its files, and a
\* task that is queued is eventually taken by a worker and runs to its
\* return or its raise (every adapter call returns or raises). Whether a
\* client sends another request is not up to the system.
StageStep ==
    \/ batch_process_pdf_enqueue
    \/ \E j \in Jobs : process_document_pipeline(j)
    \/ \E j \in Jobs : process_ocr_task_start(j)
    \/ \E j \in Jobs : process_ocr_task_return(j)
    \/ \E j \in Jobs : process_ocr_task_raise(j)
    \/ \E j \in Jobs : process_gpt_extraction_start(j)
    \/ \E j \in Jobs : process_gpt_extraction_empty(j)
    \/ \E j \in Jobs : process_gpt_extraction_return(j)
    \/ \E j \in Jobs : process_gpt_extraction_raise(j)
    \/ \E j \in Jobs : process_gpt_extraction_decr(j)
    \/ \E j \in Jobs : process_gpt_extraction_batch_completed(j)
    \/ \E j \in Jobs : process_validation_task_start(j)
    \/ \E j \in Jobs : process_validation_task_return(j)
    \/ \E j \in Jobs : process_validation_task_raise(j)
    \/ \E j \in Jobs : process_validation_task_decr(j)
    \/ \E j \in Jobs : process_validation_task_batch_completed(j)
    \/ \E j \in Jobs : process_validation_task_delete(j)

SpecLive == Spec /\ WF_vars(StageStep)

\* ------------------------------------------------- multi-document submission
Endpoints == {"generic", "janzour", "safwa", "massara", "muasafat"}

\* The tasks app/tasks.py defines.
TasksDefined ==
    {"process_document_pipeline", "process_ocr_task", "process_gpt_extraction",
     "process_validation_task", "cleanup_old_results",
     "process_janzour_pipeline", "process_janzour_ocr_task",
     "process_massara_pipeline", "process_massara_ocr_task"}

\* The per-document pipelines (each builds the OCR/STRUCTURE/VALIDATE chain).
DocumentPipelines ==
    {"process_document_pipeline", "process_janzour_pipeline", "process_massara_pipeline"}

\* The task each batch route hands its documents to.
TaskOf(endpoint) ==
    CASE endpoint = "generic" -> "process_document_pipeline"
      [] endpoint = "safwa" -> "process_janzour_pipeline"
      [] endpoint = "janzour" -> "process_janzour_batch_pipeline"
      [] endpoint \in {"massara", "muasafat"} -> "process_massara_batch_pipeline"

\* The generic and Safwa routes enqueue inside the loop over the files; the
\* Janzour, Massara and Muasafat routes save every file first and then trigger
\* one task with the list of paths.
PerDocument(endpoint) == endpoint \in {"generic", "safwa"}

\* A request arrives: the files whose name ends in .pdf are kept; with none
\* the route returns [] at once, otherwise one batch_id is generated.
batch_request_filter ==
    /\ sub.phase = "idle"
    /\ \E e \in Endpoints, n \in 0..MaxFiles :
         \E v \in 0..n :
            sub' = [sub EXCEPT !.endpoint = e, !.files = n, !.valid = v,
                               !.batch_ids = IF v = 0 THEN 0 ELSE 1,
                               !.phase = IF v = 0 THEN "returned"
                                         ELSE IF PerDocument(e) THEN "saved"
                                         ELSE "saving"]
    /\ UNCHANGED <<pvars, infer, page, doc, xvars>>

\* Janzour, Massara, Muasafat: the loop that saves the uploaded files.
batch_request_save ==
    /\ sub.phase = "saving"
    /\ sub' = [sub EXCEPT !.saved = @ + 1,
                          !.phase = IF sub.saved + 1 = sub.valid THEN "saved" ELSE "saving"]
    /\ UNCHANGED <<pvars, infer, page, doc, xvars>>

\* redis.set("batch_count:<batch_id>", len(valid_files)).
batch_request_set ==
    /\ sub.phase = "saved"
    /\ sub' = [sub EXCEPT !.key = <<sub.valid>>, !.phase = "counted"]
    /\ UNCHANGED <<pvars, infer, page, doc, xvars>>

\* Generic, Safwa: one pass of the loop saves a file and enqueues its
\* pipeline task with the batch_id; after the last pass the route returns.
batch_request_enqueue_document ==
    /\ sub.phase = "counted"
    /\ PerDocument(sub.endpoint)
    /\ sub' = [sub EXCEPT
            !.saved = @ + 1,
            !.queue = Append(@, [task |-> TaskOf(sub.endpoint),
                                 batch_id |-> BatchId, docs |-> 1]),
            !.phase = IF sub.saved + 1 = sub.valid THEN "returned" ELSE "counted"]
    /\ UNCHANGED <<pvars, infer, page, doc, xvars>>

\* Janzour, Massara, Muasafat: `from app.tasks import <task>` followed by one
\* apply_async(args=[pdf_paths, batch_id], task_id=batch_id). The import
\* raises ImportError when app/tasks.py does not define the task.
batch_request_enqueue_batch ==
    /\ sub.phase = "counted"
    /\ ~PerDocument(sub.endpoint)
    /\ IF TaskOf(sub.endpoint) \in TasksDefined
         THEN sub' = [sub EXCEPT
                 !.queue = Append(@, [task |-> TaskOf(sub.endpoint),
                                      batch_id |-> BatchId, docs |-> sub.valid]),
                 !.phase = "returned"]
         ELSE sub' = [sub EXCEPT !.phase = "raised"]
    /\ UNCHANGED <<pvars, infer, page, doc, xvars>>

NextSubmit ==
    \/ batch_request_filter
    \/ batch_request_save
    \/ batch_request_set
    \/ batch_request_enqueue_document
    \/ batch_request_enqueue_batch

SpecSubmit == Init /\ [][NextSubmit]_vars

\* ------------------------------------------------------- template classifiers
\* What the detectors and the probe would answer on a page: whether cv2.imread
\* loads it, whether process_layout returns, the labels it returns, what the
\* title probe reads, whether the QR detector finds a code, and what the
\* identity-card cropping routine does.
Labels == {"doc_title", "paragraph_title", "table", "header", "header_image", "footer"}

\* The probe's answer: a text with both receipt words ("receipt"), with only
\* the first or only the second of them, a text with the in-patient medicine
\* phrase ("skip_phrase"), with the discharge-paper phrase, any other text, or
\* the exception object that _run_single_inference_task returns.
ProbeAnswers ==
    {"receipt", "receipt_only", "number_only", "skip_phrase", "discharge", "other", "exc"}

\* `"<word>" in ocr_result`: raises TypeError on an exception object, which
\* the enclosing try turns into a skip.
HasReceiptWord(a) == a \in {"receipt", "receipt_only"}
HasNumberWord(a) == a \in {"receipt", "number_only"}
\* A probe that is content with the first word alone.
JanzourProbePassesOnReceiptWord(a) == a # "exc" /\ HasReceiptWord(a)
JanzourProbePasses(a) == a # "exc" /\ HasReceiptWord(a) /\ HasNumberWord(a)
\* `isinstance(ocr_result, str) and "<phrase>" in ocr_result`.
MassaraProbeSkips(a) == a # "exc" /\ a \in {"skip_phrase", "discharge"}
GenericProbeSkips(a) == a # "exc" /\ a = "skip_phrase"

\* process_and_crop_qr_region on a hit: a crop; or, the crop region being
\* empty, None (its size check) or an exception (cv2.imwrite of the empty
\* array, which precedes the size check).
CropOutcomes == {"ok", "empty_none", "empty_raise"}

PageInputs ==
    [image_ok : BOOLEAN, layout_ok : BOOLEAN, labels : SUBSET Labels,
     probe : ProbeAnswers, qr : {"hit", "miss"}, crop : CropOutcomes]

Templates == {"generic", "janzour", "massara"}

\* get_prompt_by_keyword: substring tests on the lower-cased keyword, in this
\* order. A keyword is the set of its words.
get_prompt_by_keyword(keyword) ==
    IF "janzour" \in keyword THEN "janzour_prompt"
    ELSE IF "massara" \in keyword THEN "massara_prompt"
    ELSE IF "idcard" \in keyword THEN "idcard_prompt"
    ELSE IF "receipt" \in keyword THEN "receipt_prompt"
    ELSE "default_prompt"

\* The three ways a classifier call ends: a job dict, None, or an exception.
Job(mode, keyword, image, probed, qr_calls) ==
    [kind |-> "job", mode |-> mode, keyword |-> keyword,
     prompt |-> get_prompt_by_keyword(keyword), image |-> image,
     probed |-> probed, qr_calls |-> qr_calls]
NoJob(kind, probed, qr_calls) ==
    [kind |-> kind, mode |-> "none", keyword |-> {}, prompt |-> "none",
     image |-> "none", probed |-> probed, qr_calls |-> qr_calls]

has_header(d) == "header" \in d.labels \/ "header_image" \in d.labels
has_table(d) == "table" \in d.labels

\* Janzour: predict_qr_detection, then the identity-card crop on a hit.
JanzourIdCard(d, probed) ==
    IF d.qr = "hit"
      THEN CASE d.crop = "ok" -> Job("idcard", {"idcard"}, "idcard_crop", probed, 1)
             [] d.crop = "empty_none" -> NoJob("skip", probed, 1)
             [] d.crop = "empty_raise" -> NoJob("raise", probed, 1)
      ELSE NoJob("skip", probed, 1)

\* A tree in which a doc_title alone selects the structured crop.
PrepareJanzourPageTitleFirst(d) ==
    IF d.image_ok /\ d.layout_ok /\ "doc_title" \in d.labels
      THEN Job("janzour", {"janzour"}, "below_title", FALSE, 0)
      ELSE NoJob("skip", FALSE, 0)
prepare_janzour_page(d) ==
    IF ~d.image_ok THEN NoJob("skip", FALSE, 0)
    ELSE IF ~d.layout_ok THEN NoJob("skip", FALSE, 0)
    ELSE
      LET doc_title == "doc_title" \in d.labels
          paragraph_title == "paragraph_title" \in d.labels
          footer == "footer" \in d.labels
          probed == ~doc_title /\ paragraph_title
          \* final_image after the probe block
          probe_image == IF probed THEN "full_page" ELSE "none"
      IN IF probed /\ ~JanzourProbePasses(d.probe) THEN NoJob("skip", TRUE, 0)
         ELSE IF ~has_table(d) /\ has_header(d) THEN JanzourIdCard(d, probed)
         ELSE IF ~(has_header(d) /\ has_table(d)) THEN JanzourIdCard(d, probed)
         ELSE IF doc_title
           THEN Job("janzour", {"janzour"},
                    IF footer THEN "below_title_above_footer" ELSE "below_title",
                    probed, 0)
         ELSE IF probe_image = "none" THEN NoJob("skip", probed, 0)
         ELSE Job("janzour", {"janzour"}, probe_image, probed, 0)

\* Massara: predict_qr_detection, then the crop, then
\* cv2.imwrite("cv_image.jpg", cropped_cv), which raises on None.
MassaraIdCard(d) ==
    IF d.qr = "hit"
      THEN IF d.crop = "ok"
             THEN Job("idcard", {"idcard"}, "idcard_crop", FALSE, 1)
             ELSE NoJob("raise", FALSE, 1)
      ELSE NoJob("skip", FALSE, 1)

prepare_massara_page(d) ==
    IF ~d.image_ok THEN NoJob("skip", FALSE, 0)
    ELSE IF ~d.layout_ok THEN NoJob("skip", FALSE, 0)
    ELSE
      LET doc_title == "doc_title" \in d.labels
          paragraph_title == "paragraph_title" \in d.labels
          footer == "footer" \in d.labels
      IN IF ~doc_title /\ ~paragraph_title /\ has_table(d)
           THEN Job("massara", {"massara"},
                    IF has_header(d)
                      THEN (IF footer THEN "below_header_above_footer" ELSE "below_header")
                      ELSE (IF footer THEN "full_page_above_footer" ELSE "full_page"),
                    FALSE, 0)
         ELSE IF doc_title \/ (paragraph_title /\ has_table(d))
           THEN IF MassaraProbeSkips(d.probe)
                  THEN NoJob("skip", TRUE, 0)
                  ELSE Job("massara", {"massara", "medicine"}, "full_page", TRUE, 0)
         ELSE IF ~has_table(d) THEN MassaraIdCard(d)
         ELSE IF ~has_table(d) THEN NoJob("skip", FALSE, 0)
         ELSE Job("massara", {"massara"}, "full_page", FALSE, 0)

\* The generic tree of prepare_page_input; it has no final check on
\* final_image, every branch that falls through sets one.
prepare_page_input(d) ==
    IF ~d.image_ok THEN NoJob("skip", FALSE, 0)
    ELSE IF ~d.layout_ok THEN NoJob("skip", FALSE, 0)
    ELSE
      LET doc_title == "doc_title" \in d.labels
          paragraph_title == "paragraph_title" \in d.labels
          footer == "footer" \in d.labels
      IN IF doc_title /\ has_table(d)
           THEN IF GenericProbeSkips(d.probe)
                  THEN NoJob("skip", TRUE, 0)
                  ELSE Job("janzour", {"janzour"},
                           IF footer THEN "below_title_above_footer" ELSE "below_title",
                           TRUE, 0)
         ELSE IF ~(has_header(d) /\ has_table(d)) THEN JanzourIdCard(d, FALSE)
         ELSE IF ~doc_title /\ ~paragraph_title
           THEN Job("massara", {"massara"},
                    IF has_header(d)
                      THEN (IF footer THEN "below_header_above_footer" ELSE "below_header")
                      ELSE (IF footer THEN "full_page_above_footer" ELSE "full_page"),
                    FALSE, 0)
         ELSE IF ~doc_title /\ paragraph_title
           THEN IF GenericProbeSkips(d.probe)
                  THEN NoJob("skip", TRUE, 0)
                  ELSE Job("massara", {"massara", "medicine"}, "full_page", TRUE, 0)
         ELSE Job("default", {"default"}, "full_page", FALSE, 0)

prepare_page(template, d) ==
    CASE template = "generic" -> prepare_page_input(d)
      [] template = "janzour" -> prepare_janzour_page(d)
      [] template = "massara" -> prepare_massara_page(d)

\* One page with its detector answers is handed to a classifier.
InitClassify ==
    /\ InitPipeline
    /\ infer = InferIdle
    /\ sub = SubIdle
    /\ doc = DocIdle
    /\ geo = GeoIdle
    /\ bus = BusIdle
    /\ wk = WkIdle
    /\ \E t \in Templates, d \in PageInputs :
          page = [phase |-> "input", template |-> t, in |-> d]

prepare_janzour_page_call ==
    /\ page.phase = "input"
    /\ page.template = "janzour"
    /\ page' = [phase |-> "classified", template |-> page.template, in |-> page.in,
                out |-> prepare_janzour_page(page.in)]
    /\ UNCHANGED <<pvars, infer, sub, doc, xvars>>

prepare_massara_page_call ==
    /\ page.phase = "input"
    /\ page.template = "massara"
    /\ page' = [phase |-> "classified", template |-> page.template, in |-> page.in,
                out |-> prepare_massara_page(page.in)]
    /\ UNCHANGED <<pvars, infer, sub, doc, xvars>>

prepare_page_input_call ==
    /\ page.phase = "input"
    /\ page.template = "generic"
    /\ page' = [phase |-> "classified", template |-> page.template, in |-> page.in,
                out |-> prepare_page_input(page.in)]
    /\ UNCHANGED <<pvars, infer, sub, doc, xvars>>

NextClassify ==
    \/ prepare_page_input_call
    \/ prepare_janzour_page_call
    \/ prepare_massara_page_call

SpecClassify == InitClassify /\ [][NextClassify]_vars

\* ------------------------------------------------------ OCR stage of a document
\* run_ocr_pipeline, process_janzour_pdf and process_massara_pdf: extract the page images,
\* classify each page, run the batch inference on the prepared pages, join.
PageOf(labels, qr, crop) ==
    [image_ok |-> TRUE, layout_ok |-> TRUE, labels |-> labels,
     probe |-> "other", qr |-> qr, crop |-> crop]

\* The pages documents are made of here: one that cv2.imread cannot load,
\* one on which process_layout raises, titled and untitled pages with and
\* without header, table and QR code, and QR pages whose crop is empty.
DocPages ==
    {[PageOf({}, "miss", "ok") EXCEPT !.image_ok = FALSE],
     [PageOf({}, "miss", "ok") EXCEPT !.layout_ok = FALSE],
     PageOf({"doc_title", "table", "header"}, "miss", "ok"),
     PageOf({"doc_title", "table"}, "miss", "ok"),
     PageOf({}, "hit", "ok"),
     PageOf({}, "hit", "empty_none"),
     PageOf({}, "hit", "empty_raise"),
     PageOf({"header", "table"}, "miss", "ok"),
     PageOf({"header", "table"}, "hit", "ok")}

IdCardSeparator == "============ ID Card ==========="
PageSeparator == "===========page==========="

\* One separator for every mode.
SeparatorSame(mode) == PageSeparator
separator(mode) ==
    IF mode = "idcard" THEN IdCardSeparator
    ELSE IF mode \in {"janzour", "massara"} THEN PageSeparator
    ELSE PageSeparator

\* What precedes a page's result in the joined text: its mode's separator in
\* process_janzour_pdf and process_massara_pdf; nothing in run_ocr_pipeline,
\* which returns "\n".join(raw_results).
line_before(template, mode) ==
    IF template = "generic" THEN "none" ELSE separator(mode)

\* extract_images_from_pdf has returned the page images of a document.
process_pdf_call ==
    /\ doc.phase = "idle"
    /\ \E t \in Templates, n \in 0..MaxPages :
         \E ps \in [1..n -> DocPages] :
            doc' = [phase |-> "prepare", template |-> t, pages |-> ps, idx |-> 0,
                    batch_jobs |-> <<>>, skipped_pages |-> <<>>,
                    inference_calls |-> 0, sent |-> <<>>, raw_results |-> <<>>,
                    joined |-> <<>>]
    /\ UNCHANGED <<pvars, infer, sub, page, xvars>>

\* A loop body whose except branch records nothing.
process_pdf_prepare_drops_failed ==
    /\ doc.phase = "prepare"
    /\ doc.idx < Len(doc.pages)
    /\ LET job == prepare_page(doc.template, doc.pages[doc.idx + 1])
       IN CASE job.kind = "job" ->
                 doc' = [doc EXCEPT
                     !.batch_jobs = Append(@, [page_index |-> doc.idx, mode |-> job.mode]),
                     !.idx = @ + 1]
            [] job.kind = "skip" ->
                 doc' = [doc EXCEPT
                     !.skipped_pages = Append(@, [page_index |-> doc.idx, why |-> "status"]),
                     !.idx = @ + 1]
            [] job.kind = "raise" -> doc' = [doc EXCEPT !.idx = @ + 1]
    /\ UNCHANGED <<pvars, infer, sub, page, xvars>>
\* A loop body without the try/except around the classifier call.
process_pdf_prepare_uncaught ==
    /\ doc.phase = "prepare"
    /\ doc.idx < Len(doc.pages)
    /\ LET job == prepare_page(doc.template, doc.pages[doc.idx + 1])
       IN CASE job.kind = "job" ->
                 doc' = [doc EXCEPT
                     !.batch_jobs = Append(@, [page_index |-> doc.idx, mode |-> job.mode]),
                     !.idx = @ + 1]
            [] job.kind = "skip" ->
                 doc' = [doc EXCEPT
                     !.skipped_pages = Append(@, [page_index |-> doc.idx, why |-> "status"]),
                     !.idx = @ + 1]
            [] job.kind = "raise" -> doc' = [doc EXCEPT !.phase = "raised"]
    /\ UNCHANGED <<pvars, infer, sub, page, xvars>>
\* One pass of the loop over the page images: the page is classified; a job
\* gets its page_index and joins batch_jobs, None is recorded in skipped_pages
\* with status "skipped", an exception is recorded there with its message.
process_pdf_prepare ==
    /\ doc.phase = "prepare"
    /\ doc.idx < Len(doc.pages)
    /\ LET job == prepare_page(doc.template, doc.pages[doc.idx + 1])
       IN CASE job.kind = "job" ->
                 doc' = [doc EXCEPT
                     !.batch_jobs = Append(@, [page_index |-> doc.idx, mode |-> job.mode]),
                     !.idx = @ + 1]
            [] job.kind = "skip" ->
                 doc' = [doc EXCEPT
                     !.skipped_pages = Append(@, [page_index |-> doc.idx, why |-> "status"]),
                     !.idx = @ + 1]
            [] job.kind = "raise" ->
                 doc' = [doc EXCEPT
                     !.skipped_pages = Append(@, [page_index |-> doc.idx, why |-> "error"]),
                     !.idx = @ + 1]
    /\ UNCHANGED <<pvars, infer, sub, page, xvars>>

\* After the loop: run_batch_inference is awaited on batch_jobs unless the
\* list is empty; it returns one entry per job, text or error string.
process_pdf_infer ==
    /\ doc.phase = "prepare"
    /\ doc.idx = Len(doc.pages)
    /\ IF doc.batch_jobs # <<>>
         THEN doc' = [doc EXCEPT
                 !.phase = "inferred",
                 !.inference_calls = @ + 1,
                 !.sent = doc.batch_jobs,
                 !.raw_results = [i \in 1..Len(doc.batch_jobs) |->
                                     [page_index |-> doc.batch_jobs[i].page_index]]]
         ELSE doc' = [doc EXCEPT !.phase = "inferred"]
    /\ UNCHANGED <<pvars, infer, sub, page, xvars>>

\* zip(batch_jobs, raw_results): each result is prefixed with the separator
\* of its job's mode (the generic pipeline joins the results alone); the
\* function returns (joined, skipped_pages).
process_pdf_return ==
    /\ doc.phase = "inferred"
    /\ doc' = [doc EXCEPT
            !.phase = "returned",
            !.joined = [i \in 1..Len(doc.raw_results) |->
                           [separator |-> line_before(doc.template, doc.batch_jobs[i].mode),
                            page_index |-> doc.raw_results[i].page_index]]]
    /\ UNCHANGED <<pvars, infer, sub, page, xvars>>

NextOcr ==
    \/ process_pdf_call
    \/ process_pdf_prepare
    \/ process_pdf_infer
    \/ process_pdf_return

SpecOcr == Init /\ [][NextOcr]_vars

\* ------------------------------------------- identity-card cropping geometry
\* determine_orientation and process_and_crop_qr_region, on integers: the
\* routine truncates every box with int() before it computes anything.
MaxCentroids == 4
MaxCoord == 6

\* y-coordinates of finder-pattern centres.
CentreYs == {10, 12, 55, 98, 100}
PatternCentres == UNION {[1..n -> CentreYs] : n \in 0..MaxCentroids}

\* The loop over range(len(y_coords) - 1), i counted from 0 as in the source:
\* only a strictly larger gap moves the split.
RECURSIVE SplitIndex(_, _, _, _)
SplitIndex(y_coords, i, max_gap, split_index) ==
    IF i >= Len(y_coords) - 1 THEN split_index
    ELSE LET gap == y_coords[i + 2] - y_coords[i + 1]
         IN IF gap > max_gap
              THEN SplitIndex(y_coords, i + 1, gap, i)
              ELSE SplitIndex(y_coords, i + 1, max_gap, split_index)

\* A loop in which the last of several largest gaps wins.
DetermineOrientationLastGap(pattern_centers) ==
    IF Len(pattern_centers) < 3 THEN 0
    ELSE LET y == SortSeq(pattern_centers, LAMBDA a, b : a < b)
             top == CHOOSE k \in 1..(Len(y) - 1) :
                      /\ \A m \in 1..(Len(y) - 1) : y[m + 1] - y[m] <= y[k + 1] - y[k]
                      /\ \A m \in (k + 1)..(Len(y) - 1) : y[m + 1] - y[m] < y[k + 1] - y[k]
         IN IF top > Len(y) - top THEN 0 ELSE 180
determine_orientation(pattern_centers) ==
    IF Len(pattern_centers) < 3 THEN 0
    ELSE LET y_coords == SortSeq(pattern_centers, LAMBDA a, b : a < b)
             split_index == SplitIndex(y_coords, 0, 0, 0)
             count_top == split_index + 1
             count_bottom == Len(y_coords) - (split_index + 1)
         IN IF count_top > count_bottom THEN 0 ELSE 180

Abs(a) == IF a < 0 THEN -a ELSE a

\* A comparison that also takes equal distances for a pair at the top.
BarcodeDetermineOrientationTie(pattern_centers) ==
    IF Len(pattern_centers) < 3 THEN 0
    ELSE LET y_coords == SortSeq(pattern_centers, LAMBDA a, b : a < b)
             dist_0_1 == Abs(y_coords[2] - y_coords[1])
             dist_1_2 == Abs(y_coords[3] - y_coords[2])
         IN IF dist_0_1 <= dist_1_2 THEN 0 ELSE 180
\* determine_orientation of barcode.py: the distance between the first two
\* sorted y-coordinates against the distance between the second and third.
barcode_determine_orientation(pattern_centers) ==
    IF Len(pattern_centers) < 3 THEN 0
    ELSE LET y_coords == SortSeq(pattern_centers, LAMBDA a, b : a < b)
             dist_0_1 == Abs(y_coords[2] - y_coords[1])
             dist_1_2 == Abs(y_coords[3] - y_coords[2])
         IN IF dist_0_1 < dist_1_2 THEN 0 ELSE 180

Min(a, b) == IF a < b THEN a ELSE b
Max(a, b) == IF a > b THEN a ELSE b

\* int() of the quotient n / 10: truncation towards zero.
IntOfTenths(n) == IF n >= 0 THEN n \div 10 ELSE -((-n) \div 10)

\* A remap that measures the right edge against the height.
RemapRightFromHeight(w_orig, h_orig, b) ==
    <<Min(w_orig - b[3], h_orig - b[1]), Min(h_orig - b[4], h_orig - b[2]),
      Max(w_orig - b[3], h_orig - b[1]), Max(h_orig - b[4], h_orig - b[2])>>
\* The box <<x1, y1, x2, y2>> in the coordinates of the image rotated by 180
\* degrees, each pair re-sorted.
remap(w_orig, h_orig, b) ==
    LET x1r == w_orig - b[3]
        y1r == h_orig - b[4]
        x2r == w_orig - b[1]
        y2r == h_orig - b[2]
    IN <<Min(x1r, x2r), Min(y1r, y2r), Max(x1r, x2r), Max(y1r, y2r)>>

\* expansion_factor_up and expansion_factor_right of the call sites, in tenths.
EupTenths == 40
ErightTenths == {58, 59}

\* <<x1_final, y1_final, x2_final, y2_final>> of the QR box b.
expanded_crop(w_rot, h_rot, b, eright) ==
    LET w_box == b[3] - b[1]
        h_box == b[4] - b[2]
        y1_final == Max(0, IntOfTenths(10 * b[4] - h_box * EupTenths))
        x2_final == Min(w_rot, IntOfTenths(10 * b[1] + w_box * eright))
        x1_final == Max(0, b[1])
        y2_final == Min(h_rot, b[4])
    IN <<x1_final, y1_final, x2_final, y2_final>>

Area(r) == (r[3] - r[1]) * (r[4] - r[2])

\* numpy's size of image[y1:y2, x1:x2] is 0, for indexes that are not negative.
EmptySlice(r) == r[3] <= r[1] \/ r[4] <= r[2]

\* An image box in working coordinates, clamped to the image.
clamped(w_rot, h_rot, b) ==
    <<Max(0, b[1]), Max(0, b[2]), Min(w_rot, b[3]), Min(h_rot, b[4])>>

\* `item_area < 0.3 * expanded_area`.
whitened(item_area, expanded_area) == 10 * item_area < 3 * expanded_area

\* The image: w_orig by h_orig pixels.
ImageW == MaxCoord
ImageH == MaxCoord - 1

\* Boxes <<x1, y1, x2, y2>> with x1 <= x2 and y1 <= y2 inside the image: QR
\* boxes of the detector with sides from QrSides, layout boxes labelled image
\* with their upper left corner among ImageOrigins.
QrSides == {0, 1, 2}
ImageOrigins == {0, 1}
QrBoxes ==
    {b \in {<<x1, y1, x1 + w, y1 + h>> : x1 \in 0..ImageW, y1 \in 0..ImageH,
                                         w \in QrSides, h \in QrSides} :
        b[3] <= ImageW /\ b[4] <= ImageH}
ImageBoxes ==
    {b \in ImageOrigins \X ImageOrigins \X (0..ImageW) \X (0..ImageH) :
        b[1] <= b[3] /\ b[2] <= b[4]}

\* What get_finder_patterns may find in the QR crop.
FinderPatterns == {<<>>, <<10, 12, 100>>, <<10, 98, 100>>}

\* determine_orientation is called on a list of centres.
determine_orientation_call ==
    /\ geo.phase = "idle"
    /\ \E pattern_centers \in PatternCentres :
          geo' = [phase |-> "oriented", pattern_centers |-> pattern_centers,
                  angle |-> determine_orientation(pattern_centers)]
    /\ UNCHANGED <<pvars, infer, ovars, bus, wk>>

\* process_and_crop_qr_region on an image of ImageW by ImageH pixels, a first
\* detection, the layout's image boxes (none or one) and one of the call
\* sites' right expansion factors. The orientation is looked for only in a
\* QR crop that is not empty. The working image is a copy of the input. On
\* an empty crop cv2.imwrite raises before the size test, or, if it accepts
\* the empty array, the routine returns None.
process_and_crop_qr_region_call ==
    /\ geo.phase = "idle"
    /\ \E detection \in QrBoxes, image_bboxes \in {<<>>} \cup {<<b>> : b \in ImageBoxes},
          pattern_centers \in FinderPatterns, eright \in ErightTenths :
         LET orientation_angle ==
                 IF ~EmptySlice(detection) /\ Len(pattern_centers) >= 3
                   THEN determine_orientation(pattern_centers)
                   ELSE 0
             qr_box == IF orientation_angle = 180
                         THEN remap(ImageW, ImageH, detection)
                         ELSE detection
             rect == expanded_crop(ImageW, ImageH, qr_box, eright)
             expanded_area == Area(rect)
             items == [i \in 1..Len(image_bboxes) |->
                         LET b == clamped(ImageW, ImageH,
                                          IF orientation_angle = 180
                                            THEN remap(ImageW, ImageH, image_bboxes[i])
                                            ELSE image_bboxes[i])
                         IN [bbox |-> b, item_area |-> Area(b),
                             whitened |-> whitened(Area(b), expanded_area)]]
         IN \E out \in IF EmptySlice(rect) THEN {"raise", "none"} ELSE {"crop"} :
               geo' = [phase |-> "cropped", detection |-> detection,
                       image_bboxes |-> image_bboxes, eright |-> eright,
                       orientation_angle |-> orientation_angle, qr_box |-> qr_box,
                       rect |-> rect, expanded_area |-> expanded_area,
                       items |-> items, out |-> out]
    /\ UNCHANGED <<pvars, infer, ovars, bus, wk>>

NextGeo ==
    \/ determine_orientation_call
    \/ process_and_crop_qr_region_call

SpecGeo == Init /\ [][NextGeo]_vars

\* ------------------------------------------------------- progress event bus
\* publish_update on the workers' side, the /ws endpoint on the server's
\* side, Redis pub/sub between them.
MaxPublished == 3

TaskIds == {"a", "b"}

\* f"task_updates:{task_id}"
channel_of(task_id) == <<"task_updates", task_id>>
\* the pattern "task_updates:*"
pattern_matches(channel) == channel[1] = "task_updates"

\* A publication that reaches every subscribed connection twice.
PublishUpdateTwice(task_id) ==
    /\ bus.calls < MaxPublished
    /\ LET m == [channel |-> channel_of(task_id),
                 data |-> [task_id |-> task_id, n |-> bus.calls + 1]]
       IN bus' = [bus EXCEPT
               !.calls = @ + 1,
               !.published = Append(@, m),
               !.conn = [c \in Connections |->
                           IF bus.conn[c].state = "subscribed"
                             THEN [bus.conn[c] EXCEPT !.inbox = @ \o <<m, m>>]
                             ELSE bus.conn[c]]]
    /\ UNCHANGED <<pvars, infer, ovars, geo, wk>>
\* publish_update: r.publish on the channel of the task; Redis hands the
\* message to every connection whose pattern matches the channel, and keeps
\* nothing for later subscribers.
publish_update_call(task_id) ==
    /\ bus.calls < MaxPublished
    /\ LET m == [channel |-> channel_of(task_id),
                 data |-> [task_id |-> task_id, n |-> bus.calls + 1]]
       IN bus' = [bus EXCEPT
               !.calls = @ + 1,
               !.published = Append(@, m),
               !.conn = [c \in Connections |->
                           IF bus.conn[c].state = "subscribed" /\ pattern_matches(m.channel)
                             THEN [bus.conn[c] EXCEPT !.inbox = Append(@, m)]
                             ELSE bus.conn[c]]]
    /\ UNCHANGED <<pvars, infer, ovars, geo, wk>>

\* publish_update when r.publish raises: the exception is printed and
\* swallowed, nothing is published.
publish_update_raises(task_id) ==
    /\ bus.calls < MaxPublished
    /\ bus' = [bus EXCEPT !.calls = @ + 1]
    /\ UNCHANGED <<pvars, infer, ovars, geo, wk>>

\* websocket.accept()
websocket_endpoint_accept(c) ==
    /\ bus.conn[c].state = "none"
    /\ bus' = [bus EXCEPT !.conn[c].state = "accepted"]
    /\ UNCHANGED <<pvars, infer, ovars, geo, wk>>

\* A subscription that is handed everything published so far.
WebsocketEndpointPsubscribeReplays(c) ==
    /\ bus.conn[c].state = "accepted"
    /\ bus' = [bus EXCEPT !.conn[c].state = "subscribed",
                          !.conn[c].inbox = bus.published,
                          !.conn[c].sub_at = Len(bus.published)]
    /\ UNCHANGED <<pvars, infer, ovars, geo, wk>>
\* pubsub.psubscribe("task_updates:*")
websocket_endpoint_psubscribe(c) ==
    /\ bus.conn[c].state = "accepted"
    /\ bus' = [bus EXCEPT !.conn[c].state = "subscribed",
                          !.conn[c].sub_at = Len(bus.published)]
    /\ UNCHANGED <<pvars, infer, ovars, geo, wk>>

\* One pass of the loop over pubsub.listen(): the next pmessage is forwarded
\* with websocket.send_text.
websocket_endpoint_send_text(c) ==
    /\ bus.conn[c].state = "subscribed"
    /\ bus.conn[c].inbox # <<>>
    /\ bus' = [bus EXCEPT !.conn[c].received = Append(@, Head(bus.conn[c].inbox)),
                          !.conn[c].inbox = Tail(@)]
    /\ UNCHANGED <<pvars, infer, ovars, geo, wk>>

\* The loop ends: send_text raises on a client that has gone, or listen()
\* raises; finally unsubscribes and closes the Redis connection. What was
\* not forwarded yet is dropped.
websocket_endpoint_close(c) ==
    /\ bus.conn[c].state = "subscribed"
    /\ bus' = [bus EXCEPT !.conn[c].state = "closed",
                          !.conn[c].inbox = <<>>,
                          !.conn[c].end_at = Len(bus.published)]
    /\ UNCHANGED <<pvars, infer, ovars, geo, wk>>

NextBus ==
    \/ \E task_id \in TaskIds : publish_update_call(task_id)
    \/ \E task_id \in TaskIds : publish_update_raises(task_id)
    \/ \E c \in Connections : websocket_endpoint_accept(c)
    \/ \E c \in Connections : websocket_endpoint_psubscribe(c)
    \/ \E c \in Connections : websocket_endpoint_send_text(c)
    \/ \E c \in Connections : websocket_endpoint_close(c)

SpecBus == Init /\ [][NextBus]_vars

\* ------------------------------------------------- a job's stages on workers
\* One job's chain OCR -> STRUCTURE -> VALIDATE, each stage on whichever
\* worker takes it. INTERIM_DIR is the relative path "storage/interim": the
\* page images live on the filesystem of the worker that ran the OCR stage.
Workers == {"w1", "w2", "w3"}
PageImages == {"page_0.png", "page_1.png"}

\* process_ocr_task on worker w: the pipeline writes the page images under
\* INTERIM_DIR/<task_id> and the task returns the text and the paths found
\* by os.walk there.
process_ocr_task_on(w) ==
    /\ wk.phase = "idle"
    /\ \E images \in SUBSET PageImages, ocr_text \in {"text", "empty"} :
          wk' = [phase |-> "ocr_done",
                 files |-> [v \in Workers |-> IF v = w THEN images ELSE {}],
                 ran_on |-> [ocr |-> w, structure |-> "none", validate |-> "none"],
                 ocr_result |-> [text |-> ocr_text, image_paths |-> images],
                 extraction_result |-> [result |-> "none", image_paths |-> {}],
                 validation_review |-> "none"]
    /\ UNCHANGED <<pvars, infer, ovars, geo, bus>>

\* process_gpt_extraction on worker w: an empty text returns {}; otherwise
\* the result carries the image_paths of the OCR result forward. It reads no
\* file.
process_gpt_extraction_on(w) ==
    /\ wk.phase = "ocr_done"
    /\ wk' = [wk EXCEPT
            !.phase = "structured",
            !.ran_on.structure = w,
            !.extraction_result =
                IF wk.ocr_result.text = "empty"
                  THEN [result |-> "{}", image_paths |-> {}]
                  ELSE [result |-> "json", image_paths |-> wk.ocr_result.image_paths]]
    /\ UNCHANGED <<pvars, infer, ovars, geo, bus>>

\* validate_json_with_images: only the paths that exist on this filesystem
\* are encoded; with none left it returns the error dict, otherwise the
\* model's review or, when the call fails, its error.
validate_json_with_images(image_paths, files, llm) ==
    IF image_paths \cap files = {} THEN "No valid images found for validation"
    ELSE llm

\* process_validation_task on worker w: the review is added to the result,
\* INTERIM_DIR/<task_id> is removed if it exists here, and the result goes
\* out in the completed event.
process_validation_task_on(w) ==
    /\ wk.phase = "structured"
    /\ \E llm \in {"review", "validation failed"} :
          wk' = [wk EXCEPT
              !.phase = "validated",
              !.ran_on.validate = w,
              !.validation_review =
                  validate_json_with_images(wk.extraction_result.image_paths,
                                            wk.files[w], llm),
              !.files[w] = {}]
    /\ UNCHANGED <<pvars, infer, ovars, geo, bus>>

NextWorkers ==
    \/ \E w \in Workers : process_ocr_task_on(w)
    \/ \E w \in Workers : process_gpt_extraction_on(w)
    \/ \E w \in Workers : process_validation_task_on(w)

SpecWorkers == Init /\ [][NextWorkers]_vars

\* The document pipeline together with the inference executor. The two share
\* no variable, so their steps commute: the executor is explored from the
\* pipeline's initial state and the pipeline from the executor's idle state.
NextNoRetry ==
    \/ Next /\ infer.phase = "idle"
    \/ NextInfer /\ Allocated = {}

SpecNoRetry == Init /\ [][NextNoRetry]_vars

\* ------------------------------------------------------------------ claims
Range(f) == {f[i] : i \in DOMAIN f}

RECURSIVE Occurrences(_, _)
Occurrences(log, e) ==
    IF log = <<>> THEN 0
    ELSE (IF Head(log) = e THEN 1 ELSE 0) + Occurrences(Tail(log), e)

RECURSIVE SumOver(_, _)
SumOver(f, S) ==
    IF S = {} THEN 0
    ELSE LET x == CHOOSE y \in S : TRUE IN f[x] + SumOver(f, S \ {x})

\* The chain of job j has stopped: its last task returned, or a task raised.
Stopped(j) == pc[j] \in {"done", "failed"}
AllStopped == BatchJobs # {} /\ \A j \in BatchJobs : Stopped(j)
\* Decrements performed on behalf of the batch's jobs.
TotalDecs == SumOver(decs, BatchJobs)
\* Number of batch_completed events published for the batch.
BatchCompletedCount ==
    SumOver([j \in Jobs |-> Occurrences(evs[j], "batch_completed")], BatchJobs)

\* C1: once the chain of a batch member has stopped, exactly one decrement has
\* been performed on its behalf, whichever stage failed (OCR, STRUCTURE,
\* VALIDATE, or none).
C1_OneDecrementPerStoppedJob ==
    \A j \in Jobs : (InBatch(j) /\ Stopped(j)) => decs[j] = 1

\* C2: for every batch, once every stage invocation has returned or raised,
\* batch_completed has been emitted, also when jobs failed in OCR, STRUCTURE or
\* VALIDATE (nothing can emit it after the last chain has stopped).
C2_BatchCompletedOnceAllStopped ==
    AllStopped => BatchCompletedCount >= 1

\* C3: batch_completed is emitted at most once and only after all N decrements;
\* when the only failures are STRUCTURE failures and every other job finished
\* VALIDATE, it has been emitted exactly once by the time all jobs have stopped.
C3_BatchCompletedExactlyOnce ==
    /\ BatchCompletedCount <= 1
    /\ BatchCompletedCount >= 1 =>
          /\ TotalDecs = Cardinality(BatchJobs)
          /\ counter \in {NoKey, <<0>>}
    /\ (AllStopped /\ \A j \in BatchJobs : threw[j] \in {"none", "STRUCTURE"}) =>
          BatchCompletedCount = 1

\* C3 witness: a batch of two, one failed at STRUCTURE and one finished
\* VALIDATE, both stopped, batch_completed published once.
C3_Witness ==
    /\ AllStopped
    /\ Cardinality(BatchJobs) >= 2
    /\ \E j \in BatchJobs : threw[j] = "STRUCTURE" /\ pc[j] = "failed"
    /\ \E j \in BatchJobs : threw[j] = "none" /\ pc[j] = "done"
    /\ BatchCompletedCount = 1

\* C4: the batch counter is never negative, and no decrement is applied to a
\* counter that is missing or has already reached zero.
C4_CounterNeverNegative ==
    /\ [](counter # NoKey => counter[1] >= 0)
    /\ [][(\E j \in Jobs : decs'[j] # decs[j]) =>
            (counter # NoKey /\ counter[1] > 0)]_vars

\* C4 witness: the last decrement of a batch of two has brought the counter to 0.
C4_Witness ==
    /\ counter = <<0>>
    /\ Cardinality(BatchJobs) >= 2
    /\ TotalDecs = Cardinality(BatchJobs)

\* C5: STRUCTURE failing, VALIDATE succeeding and VALIDATE failing each end a
\* batch member's chain with exactly one decrement performed.
C5_OneDecrementPerChainEnd ==
    \A j \in Jobs :
        (InBatch(j) /\ Stopped(j) /\ threw[j] \in {"none", "STRUCTURE", "VALIDATE"})
            => decs[j] = 1

\* C6: a job whose decrement brought the counter to zero has, by the time its
\* task ends, emitted batch_completed and removed the counter, on the
\* STRUCTURE-failure path as on the VALIDATE path; after batch_completed no
\* counter exists.
C6_ZeroEmitsAndRemoves ==
    \A j \in Jobs :
        (InBatch(j) /\ Stopped(j) /\ decs[j] = 1 /\ remaining[j] <= 0)
            => ("batch_completed" \in Range(evs[j]) /\ counter = NoKey)

StageOrder == <<"OCR", "OCR_ret", "STRUCTURE", "STRUCTURE_ret", "VALIDATE", "VALIDATE_ret">>
StageStarts == {"OCR", "STRUCTURE", "VALIDATE"}
StageRaises == {"OCR_raise", "STRUCTURE_raise", "VALIDATE_raise"}

\* C7: the stages of a job start in the order OCR, STRUCTURE, VALIDATE, each
\* only after the one before has returned, none twice; a job that is DONE has
\* run all three.
C7_StagesInOrder ==
    \A j \in Jobs :
        /\ \/ \E k \in 0..Len(StageOrder) : hist[j] = SubSeq(StageOrder, 1, k)
           \/ \E k \in {1, 3, 5} :
                 hist[j] = Append(SubSeq(StageOrder, 1, k), StageOrder[k] \o "_raise")
        /\ pc[j] = "done" => hist[j] = StageOrder

\* C7 witness: a job is DONE after its three stages.
C7_Witness == \E j \in Jobs : pc[j] = "done" /\ hist[j] = StageOrder

Grew(old, new) == SubSeq(new, Len(old) + 1, Len(new))

\* C8: once the error event of a job has been emitted, no stage of that job
\* starts and no progress, step_completed or completed event of it follows.
C8_ErrorIsAbsorbing ==
    [][\A j \in Jobs : "error" \in Range(evs[j]) =>
          /\ Range(Grew(hist[j], hist'[j])) \cap StageStarts = {}
          /\ Range(Grew(evs[j], evs'[j])) \cap {"progress", "step_completed", "completed"} = {}
          /\ pc'[j] \in {"failed", "gpt_decr", "gpt_bc"}]_vars

\* C8 witness: a batch member failed at STRUCTURE, published error, and its
\* task went on to the batch accounting and ended.
C8_Witness ==
    \E j \in Jobs :
        /\ pc[j] = "failed" /\ threw[j] = "STRUCTURE"
        /\ "error" \in Range(evs[j]) /\ decs[j] = 1

C10_OrderPreserved ==
    infer.phase = "returned" =>
        /\ Len(infer.out) = Len(infer.jobs)
        /\ \A i \in 1..Len(infer.jobs) :
              /\ infer.out[i].page = infer.jobs[i]
              /\ infer.out[i] = Outcome(infer.impl, infer.answer[i])

\* C10 witness: a call has returned in which a later job finished first.
C10_Witness ==
    /\ infer.phase = "returned"
    /\ Len(infer.jobs) >= 2
    /\ \E a, b \in 1..Len(infer.order) : a < b /\ infer.order[a] > infer.order[b]

\* C11 (as stated): in run_batch_inference every adapter call that raised is
\* returned as an error string at its own index.
C11_ErrorEntryIsString ==
    infer.phase = "returned" =>
        \A i \in 1..Len(infer.jobs) :
            infer.answer[i].kind = "exc" => infer.out[i].kind = "api_error"

\* C11 (amended): a call that raises yields an error entry at its job's own
\* index -- the "API Error: <class>: <message>" string in pdf_processor.py,
\* the exception object itself in ocr/inference.py; every other entry holds
\* its own call's text, every sibling still runs to completion, and the
\* function returns a list as long as its input.
C11_ErrorEntryIsolated ==
    /\ (infer.phase = "gathering"
          /\ \A i \in 1..Len(infer.jobs) : infer.st[i] = "done")
        => ENABLED run_batch_inference_return
    /\ infer.phase = "returned" =>
          /\ Len(infer.out) = Len(infer.jobs)
          /\ \A i \in 1..Len(infer.jobs) :
                /\ infer.st[i] = "done"
                /\ infer.out[i].page = infer.jobs[i]
                /\ infer.answer[i].kind = "text" => infer.out[i] = infer.answer[i]
                /\ infer.answer[i].kind = "exc" =>
                      infer.out[i].kind =
                          IF infer.impl = "pdf_processor" THEN "api_error" ELSE "exc"

\* A batch whose first call failed before a sibling completed with text.
C11_Witness ==
    /\ infer.phase = "returned"
    /\ infer.impl = "pdf_processor"
    /\ Len(infer.jobs) >= 2
    /\ infer.calls[1] = 1
    /\ infer.out[1].kind = "api_error"
    /\ infer.out[2].kind = "text"
    /\ infer.order[1] = 1

StageExecutions(j, stage) == Occurrences(hist[j], stage)

\* The adapter calls a task has made match how far it got: none before it
\* starts, one while its call is in flight, and never more than one.
CallsAtMostOnce ==
    \A i \in 1..Len(infer.jobs) :
        /\ infer.calls[i] <= 1
        /\ infer.st[i] = "created" => infer.calls[i] = 0
        /\ infer.st[i] = "inflight" => infer.calls[i] = 1
        /\ infer.answer[i].kind = "text" => infer.calls[i] = 1

StagesAtMostOnce ==
    \A j \in Jobs : \A stage \in StageStarts : StageExecutions(j, stage) <= 1

\* C12 (as stated): no retry at any level -- every input job of
\* run_batch_inference has caused exactly one adapter call when it returns,
\* and each stage of a Document Job is executed at most once.
C12_ExactlyOneCallPerJob ==
    /\ infer.phase = "returned" =>
            \A i \in 1..Len(infer.jobs) : infer.calls[i] = 1
    /\ StagesAtMostOnce

\* C12 (amended): no retry at any level -- every input job of
\* run_batch_inference causes at most one adapter call (exactly one unless
\* building the request raises before the call is issued), a failed call is
\* not issued again, and each stage of a Document Job is executed at most
\* once, whether it succeeds or fails.
C12_NoRetry ==
    /\ CallsAtMostOnce
    /\ StagesAtMostOnce

\* A batch has returned with a job whose single call failed and a job that
\* failed before any call was made.
C12_Witness ==
    /\ infer.phase = "returned"
    /\ \E i \in 1..Len(infer.jobs) :
            infer.answer[i].kind = "exc" /\ infer.calls[i] = 1
    /\ \E i \in 1..Len(infer.jobs) :
            infer.answer[i].kind = "exc" /\ infer.calls[i] = 0

StructureEnded(j) ==
    pc[j] \notin {"new", "accepted", "queued", "ocr_q", "ocr_run", "gpt_q", "gpt_run"}
    /\ "STRUCTURE" \in Range(hist[j])

\* C14: when the OCR text handed to STRUCTURE is empty, the STRUCTURE step
\* publishes `completed` (with an empty result) and no `error`, the job's
\* result is empty, and the job never makes a structuring call to the LLM.
C14_EmptyTextShortCircuits ==
    /\ [](\A j \in Jobs : text[j] = "empty" =>
              /\ llm_calls[j] = 0
              /\ StructureEnded(j) => result[j] = "null" /\ threw[j] # "STRUCTURE")
    /\ [][\A j \in Jobs :
            (pc[j] = "gpt_run" /\ text[j] = "empty" /\ pc'[j] # pc[j]) =>
                /\ LET new == Grew(evs[j], evs'[j])
                   IN /\ Len(new) >= 1
                      /\ new[1] = "completed"
                      /\ "error" \notin Range(new)
                /\ llm_calls'[j] = 0]_vars

C14_Witness ==
    \E j \in Jobs :
        /\ text[j] = "empty"
        /\ StructureEnded(j)
        /\ "completed" \in Range(evs[j])
        /\ pc[j] = "val_q"
        /\ llm_calls[j] = 0

Validating == {"val_q", "val_run", "val_decr", "val_bc", "val_del", "done"}

\* C15: when the structuring LLM's answer is not valid JSON the job does not
\* fail: its result is the raw_response wrapper, no `error` event is
\* published, STRUCTURE is not recorded as having thrown, and the job is handed
\* to VALIDATE.
C15_RawResponseIsNotAFailure ==
    \A j \in Jobs : result[j] = "raw" =>
        /\ "error" \notin Range(evs[j])
        /\ threw[j] # "STRUCTURE"
        /\ pc[j] \in Validating
        /\ llm_calls[j] = 1

C15_Witness ==
    \E j \in Jobs :
        /\ result[j] = "raw"
        /\ "VALIDATE" \in Range(hist[j])
        /\ pc[j] = "done"

ValidateEnded(j) ==
    "VALIDATE" \in Range(hist[j]) /\ pc[j] \in {"val_decr", "val_bc", "val_del", "done"}

\* C16 (as stated): every execution of VALIDATE that has published its terminal
\* event has deleted the job's temporary page-image directory, whatever the
\* validation outcome.
C16_InterimDeletedByValidate ==
    \A j \in Jobs : ValidateEnded(j) => interim[j] = "deleted"

\* C17 (as stated): every multi-document endpoint that accepted at least one
\* document has, when its handler ends, generated one batch_id, set the
\* pending counter to the number of accepted documents, and enqueued exactly
\* that many Document Jobs, one per document, each carrying the batch_id.
C17_OneJobPerAcceptedDocument ==
    (sub.phase \in {"returned", "raised"} /\ sub.valid > 0) =>
        /\ sub.batch_ids = 1
        /\ sub.key = <<sub.valid>>
        /\ Len(sub.queue) = sub.valid
        /\ \A i \in 1..Len(sub.queue) :
              /\ sub.queue[i].task \in DocumentPipelines
              /\ sub.queue[i].batch_id = BatchId
              /\ sub.queue[i].docs = 1

Classified(t) == page.phase = "classified" /\ page.template = t

PromptOfMode(mode) ==
    CASE mode = "janzour" -> "janzour_prompt"
      [] mode = "massara" -> "massara_prompt"
      [] mode = "idcard" -> "idcard_prompt"

\* C19 (as stated): on every combination of layout labels, probe outcome and
\* QR outcome the Janzour and the Massara classifier return either skip or
\* one decision whose mode is janzour, massara or idcard, with a non-null
\* final image and the prompt of its keyword; QR detection is invoked at most
\* once per page.
C19_SkipOrOneDecision ==
    (page.phase = "classified" /\ page.template \in {"janzour", "massara"}) =>
        /\ page.out.kind \in {"skip", "job"}
        /\ page.out.qr_calls <= 1
        /\ page.out.kind = "job" =>
              /\ page.out.mode \in {"janzour", "massara", "idcard"}
              /\ page.out.image # "none"
              /\ page.out.prompt = PromptOfMode(page.out.mode)

LayoutKnown == page.in.image_ok /\ page.in.layout_ok

\* The title probe of the Janzour tree has rejected the page.
ProbeSkipped ==
    /\ "doc_title" \notin page.in.labels
    /\ "paragraph_title" \in page.in.labels
    /\ page.in.probe # "receipt"

\* C20 (as stated): a Janzour page on which header and table are not both
\* present is never sent in structured mode: QR detection is run on the full
\* page, the page becomes idcard if a QR code is detected and is skipped
\* otherwise.
C20_FallbackIsQrOnly ==
    (Classified("janzour") /\ LayoutKnown /\ ~(has_header(page.in) /\ has_table(page.in))) =>
        /\ ~(page.out.kind = "job" /\ page.out.mode = "janzour")
        /\ page.out.qr_calls = 1
        /\ page.in.qr = "hit" => page.out.kind = "job" /\ page.out.mode = "idcard"
        /\ page.in.qr = "miss" => page.out.kind = "skip"

\* C20 (amended): a Janzour page on which header and table are not both
\* present is never sent in structured mode. When its title probe has
\* rejected it the page is skipped and no QR detection is run; otherwise QR
\* detection is run once, the page becomes idcard exactly when a QR code is
\* detected and the identity-card crop is not empty, and it yields no job
\* in every other case.
C20_FallbackNeverStructured ==
    (Classified("janzour") /\ LayoutKnown /\ ~(has_header(page.in) /\ has_table(page.in))) =>
        /\ ~(page.out.kind = "job" /\ page.out.mode = "janzour")
        /\ ProbeSkipped => page.out.kind = "skip" /\ page.out.qr_calls = 0
        /\ ~ProbeSkipped =>
              /\ page.out.qr_calls = 1
              /\ (page.in.qr = "hit" /\ page.in.crop = "ok") =>
                    /\ page.out.kind = "job"
                    /\ page.out.mode = "idcard"
                    /\ page.out.image = "idcard_crop"
              /\ (page.in.qr = "miss" \/ page.in.crop # "ok") =>
                    page.out.kind \in {"skip", "raise"}

\* A page with doc_title and table but no header, carrying a QR code, has been
\* classified as an identity card.
C20_Witness ==
    /\ Classified("janzour")
    /\ LayoutKnown
    /\ page.in.labels = {"doc_title", "table"}
    /\ page.in.qr = "hit"
    /\ page.out.kind = "job"
    /\ page.out.mode = "idcard"

DocActive == doc.phase # "idle"

\* The classifier's outcome on the page with page_index k of the document.
OutcomeOfPage(k) == prepare_page(doc.template, doc.pages[k + 1])

\* The page's identity-card crop came out empty.
EmptyCrop(k) ==
    /\ OutcomeOfPage(k).qr_calls = 1
    /\ doc.pages[k + 1].qr = "hit"
    /\ doc.pages[k + 1].crop # "ok"

BadPage(k) ==
    \/ ~doc.pages[k + 1].image_ok
    \/ ~doc.pages[k + 1].layout_ok
    \/ EmptyCrop(k)

PageIndexes(recs) == {recs[i].page_index : i \in 1..Len(recs)}

\* C13: in the OCR stage a page whose image does not load, whose layout
\* detection raises or whose identity-card crop is empty is recorded in
\* skipped_pages and does not abort the document: the loop goes on to every
\* remaining page, the pages that yield a job are all handed to inference, in
\* page order, and the stage returns.
C13_BadPageDoesNotAbort ==
    DocActive =>
        /\ doc.phase \in {"prepare", "inferred", "returned"}
        /\ doc.phase = "prepare" => ENABLED (process_pdf_prepare \/ process_pdf_infer)
        /\ doc.phase = "inferred" => ENABLED process_pdf_return
        /\ \A k \in 0..(doc.idx - 1) :
              /\ BadPage(k) => k \in PageIndexes(doc.skipped_pages)
              /\ (k \in PageIndexes(doc.batch_jobs)) = (OutcomeOfPage(k).kind = "job")
              /\ (k \in PageIndexes(doc.skipped_pages)) = (OutcomeOfPage(k).kind # "job")
        /\ Len(doc.batch_jobs) + Len(doc.skipped_pages) = doc.idx
        /\ doc.phase \in {"inferred", "returned"} =>
              /\ doc.idx = Len(doc.pages)
              /\ doc.sent = doc.batch_jobs
              /\ Len(doc.raw_results) = Len(doc.batch_jobs)
              /\ \A i \in 1..(Len(doc.sent) - 1) :
                    doc.sent[i].page_index < doc.sent[i + 1].page_index

\* A document has returned whose first pages did not load, failed layout
\* detection or gave an empty crop, and whose last page went to inference.
C13_Witness ==
    /\ DocActive
    /\ doc.phase = "returned"
    /\ Len(doc.pages) = 3
    /\ ~doc.pages[1].image_ok \/ ~doc.pages[1].layout_ok
    /\ EmptyCrop(1)
    /\ OutcomeOfPage(1).kind = "raise"
    /\ doc.sent = <<[page_index |-> 2, mode |-> "idcard"]>>
    /\ Len(doc.skipped_pages) = 2

Untitled(d) == "doc_title" \notin d.labels /\ "paragraph_title" \notin d.labels

\* The outcome the scenario expects of a 3-page document.
ScenarioOutcome ==
    /\ doc.batch_jobs = <<[page_index |-> 0, mode |-> "janzour"],
                          [page_index |-> 1, mode |-> "idcard"]>>
    /\ OutcomeOfPage(0).image \in {"below_title", "below_title_above_footer"}
    /\ OutcomeOfPage(1).image = "idcard_crop"
    /\ doc.sent = doc.batch_jobs
    /\ Len(doc.skipped_pages) = 1
    /\ doc.skipped_pages[1].page_index = 2
    /\ doc.joined = <<[separator |-> PageSeparator, page_index |-> 0],
                      [separator |-> IdCardSeparator, page_index |-> 1]>>
    /\ PageSeparator # IdCardSeparator

JanzourDocOf3 ==
    /\ DocActive
    /\ doc.phase = "returned"
    /\ doc.template = "janzour"
    /\ Len(doc.pages) = 3
    /\ \A i \in 1..3 : doc.pages[i].image_ok /\ doc.pages[i].layout_ok

\* C18 (as stated): a Janzour document of 3 pages -- page 1 with doc_title and
\* table, page 2 with no title and a QR code, page 3 with header and table,
\* no title and no QR code -- yields a structured job, an identity-card job
\* and one skipped page, and the joined text holds the two separators in page
\* order.
C18_ScenarioAsStated ==
    (/\ JanzourDocOf3
     /\ {"doc_title", "table"} \subseteq doc.pages[1].labels
     /\ Untitled(doc.pages[2]) /\ doc.pages[2].qr = "hit"
     /\ Untitled(doc.pages[3]) /\ {"header", "table"} \subseteq doc.pages[3].labels
     /\ doc.pages[3].qr = "miss")
    => ScenarioOutcome

\* C18 (amended): the same, for a page 1 that has header, doc_title and
\* table, and a page 2 that has no title, not both header and table, and a QR
\* code whose identity-card crop is not empty.
C18_Scenario ==
    (/\ JanzourDocOf3
     /\ {"doc_title", "table"} \subseteq doc.pages[1].labels
     /\ has_header(doc.pages[1])
     /\ Untitled(doc.pages[2]) /\ doc.pages[2].qr = "hit"
     /\ ~(has_header(doc.pages[2]) /\ has_table(doc.pages[2]))
     /\ doc.pages[2].crop = "ok"
     /\ Untitled(doc.pages[3]) /\ {"header", "table"} \subseteq doc.pages[3].labels
     /\ doc.pages[3].qr = "miss")
    => ScenarioOutcome

C18_Witness ==
    /\ JanzourDocOf3
    /\ doc.pages[1].labels = {"doc_title", "table", "header"}
    /\ doc.pages[2].labels = {} /\ doc.pages[2].qr = "hit" /\ doc.pages[2].crop = "ok"
    /\ doc.pages[3].labels = {"header", "table"} /\ doc.pages[3].qr = "miss"
    /\ Len(doc.joined) = 2

\* A Janzour page whose layout has a paragraph_title and no doc_title.
JanzourUntitledParagraph ==
    /\ Classified("janzour")
    /\ LayoutKnown
    /\ "doc_title" \notin page.in.labels
    /\ "paragraph_title" \in page.in.labels

\* C21: a Janzour page with a paragraph_title and no doc_title is probed; it
\* is skipped, before any QR detection, unless the probe returned a text with
\* both the receipt word and the number word (an exception object skips as
\* well). When the probe passes, the later rules decide with mode janzour
\* preset: without header and table together the page goes to QR detection
\* (idcard on a hit with a crop, no job otherwise), with both it is sent as
\* a janzour job on the full page.
C21_ProbeGatesLaterRules ==
    JanzourUntitledParagraph =>
        LET a == page.in.probe
            both == a # "exc" /\ HasReceiptWord(a) /\ HasNumberWord(a)
        IN /\ page.out.probed
           /\ ~both => page.out.kind = "skip" /\ page.out.qr_calls = 0
           /\ (both /\ ~(has_header(page.in) /\ has_table(page.in))) =>
                 /\ page.out.qr_calls = 1
                 /\ page.out.kind = "job" <=> (page.in.qr = "hit" /\ page.in.crop = "ok")
                 /\ page.out.kind = "job" => page.out.mode = "idcard"
           /\ (both /\ has_header(page.in) /\ has_table(page.in)) =>
                 /\ page.out.kind = "job"
                 /\ page.out.mode = "janzour"
                 /\ page.out.prompt = "janzour_prompt"
                 /\ page.out.image = "full_page"
                 /\ page.out.qr_calls = 0

\* A page with header, table and paragraph_title whose probe read only the
\* receipt word has been skipped.
C21_Witness ==
    /\ JanzourUntitledParagraph
    /\ page.in.labels = {"paragraph_title", "header", "table"}
    /\ page.in.probe = "receipt_only"
    /\ page.out.kind = "skip"

\* C22 (as stated): a Massara page without a table is handled by the
\* identity-card fallback whatever its titles: QR detection is run, the page
\* is never probed, becomes idcard on a hit and is skipped on a miss; and a
\* massara job, structured or medicine, is made only of a page with a table.
C22_NoTableIsIdCardFallback ==
    (Classified("massara") /\ LayoutKnown) =>
        /\ ~has_table(page.in) =>
              /\ page.out.qr_calls = 1
              /\ ~page.out.probed
              /\ page.out.kind = "job" => page.out.mode = "idcard"
              /\ page.in.qr = "miss" => page.out.kind = "skip"
        /\ (page.out.kind = "job" /\ page.out.mode = "massara") => has_table(page.in)

\* The sorted y-coordinates of the centres determine_orientation was called on.
SortedYs == SortSeq(geo.pattern_centers, LAMBDA a, b : a < b)
GapAt(y, k) == y[k + 1] - y[k]

\* C23: with fewer than 3 centres the orientation is 0; otherwise the sorted
\* y-coordinates are split at the first of their largest gaps and the
\* orientation is 0 exactly when strictly more values lie above the gap than
\* below it, else 180. [10, 12, 100] gives 0 and [10, 98, 100] gives 180.
C23_OrientationByLargestGap ==
    geo.phase = "oriented" =>
        LET n == Len(geo.pattern_centers)
        IN /\ geo.angle \in {0, 180}
           /\ n < 3 => geo.angle = 0
           /\ n >= 3 =>
                 \E k \in 1..(n - 1) :
                    /\ \A m \in 1..(n - 1) : GapAt(SortedYs, m) <= GapAt(SortedYs, k)
                    /\ \A m \in 1..(k - 1) : GapAt(SortedYs, m) < GapAt(SortedYs, k)
                    /\ geo.angle = 0 <=> k > n - k
           /\ geo.pattern_centers = <<10, 12, 100>> => geo.angle = 0
           /\ geo.pattern_centers = <<10, 98, 100>> => geo.angle = 180

\* Three centres given out of order, one above the gap and two below.
C23_Witness ==
    /\ geo.phase = "oriented"
    /\ geo.pattern_centers = <<100, 10, 98>>
    /\ geo.angle = 180

\* C24: remapping a box twice gives the box back, for the QR box and for
\* every image box of a call; and the box the routine works on after a
\* rotation by 180 degrees remaps to the detection it came from.
C24_RemapIsInvolution ==
    geo.phase = "cropped" =>
        /\ remap(ImageW, ImageH, remap(ImageW, ImageH, geo.detection)) = geo.detection
        /\ \A i \in 1..Len(geo.image_bboxes) :
              remap(ImageW, ImageH, remap(ImageW, ImageH, geo.image_bboxes[i]))
                  = geo.image_bboxes[i]
        /\ geo.orientation_angle = 180 =>
              remap(ImageW, ImageH, geo.qr_box) = geo.detection

\* A rotated call whose QR box is not centred in the image.
C24_Witness ==
    /\ geo.phase = "cropped"
    /\ geo.orientation_angle = 180
    /\ geo.detection = <<0, 3, 1, 5>>
    /\ geo.qr_box = <<ImageW - 1, ImageH - 5, ImageW, ImageH - 3>>
    /\ Len(geo.image_bboxes) = 1

\* C25 (as stated): the crop rectangle is [x1, y2 - 4h, x1 + w * Eright, y2]
\* of the working QR box, clamped to the image, and lies within the image;
\* when it is empty the routine returns no crop, so that the page is skipped.
C25_CropClampedOrSkipped ==
    geo.phase = "cropped" =>
        LET b == geo.qr_box
            w == b[3] - b[1]
            h == b[4] - b[2]
            r == geo.rect
        IN /\ r[1] = b[1]
           /\ r[2] = Max(0, b[4] - 4 * h)
           /\ r[3] = Min(ImageW, (10 * b[1] + geo.eright * w) \div 10)
           /\ r[4] = b[4]
           /\ 0 <= r[1] /\ r[1] <= r[3] /\ r[3] <= ImageW
           /\ 0 <= r[2] /\ r[2] <= r[4] /\ r[4] <= ImageH
           /\ EmptySlice(r) => geo.out = "none"
           /\ ~EmptySlice(r) => geo.out = "crop"

\* C26 (as stated): when the routine produces a crop, an image box is left
\* untouched if and only if its area exceeds 30% of the expanded crop area;
\* every other image box is whitened.
C26_UntouchedIffAbove30Percent ==
    (geo.phase = "cropped" /\ geo.out = "crop") =>
        \A i \in 1..Len(geo.items) :
           ~geo.items[i].whitened <=> 10 * geo.items[i].item_area > 3 * geo.expanded_area

\* The page indexes, in order, of the pages of the document that the
\* classifier turned into a job.
RECURSIVE JobPagesFrom(_)
JobPagesFrom(k) ==
    IF k >= Len(doc.pages) THEN <<>>
    ELSE IF OutcomeOfPage(k).kind = "job" THEN <<k>> \o JobPagesFrom(k + 1)
    ELSE JobPagesFrom(k + 1)

\* C28 (as stated): in the generic, the Janzour and the Massara pipeline the
\* joined text has exactly one block per page that was not skipped, in
\* ascending page order; each block starts with the ID-card separator if
\* the page's mode is idcard and with the page separator otherwise, and
\* carries that page's inference result.
C28_OneSeparatedBlockPerPage ==
    doc.phase = "returned" =>
        /\ Len(doc.joined) = Len(JobPagesFrom(0))
        /\ \A i \in 1..Len(doc.joined) :
              /\ doc.joined[i].page_index = JobPagesFrom(0)[i]
              /\ doc.joined[i].separator =
                    IF OutcomeOfPage(doc.joined[i].page_index).mode = "idcard"
                      THEN IdCardSeparator
                      ELSE PageSeparator

\* The messages published from position from + 1 up to position to.
Window(from, to) == SubSeq(bus.published, from + 1, to)

IsPrefix(s, t) == Len(s) <= Len(t) /\ s = SubSeq(t, 1, Len(s))

\* C29: every message is published on the channel of its own task. A
\* connection receives nothing before it has subscribed; while it is
\* subscribed, what it has been sent followed by what waits to be forwarded
\* is exactly what was published since its psubscribe, of every task, each
\* message once and in order; after it has closed it keeps a prefix of what
\* was published while it was subscribed. Nothing published before the
\* psubscribe is ever among them.
C29_SubscriberGetsItsWindow ==
    /\ \A i \in 1..Len(bus.published) :
          bus.published[i].channel = <<"task_updates", bus.published[i].data.task_id>>
    /\ \A c \in Connections :
          LET k == bus.conn[c]
          IN /\ k.state \in {"none", "accepted"} => k.received = <<>> /\ k.inbox = <<>>
             /\ k.state = "subscribed" =>
                   k.received \o k.inbox = Window(k.sub_at, Len(bus.published))
             /\ k.state = "closed" =>
                   IsPrefix(k.received, Window(k.sub_at, k.end_at))
             /\ \A i \in 1..Len(k.received), j \in 1..Len(k.received) :
                   k.received[i] = k.received[j] => i = j
             /\ \A i \in 1..Len(k.received), j \in 1..k.sub_at :
                   k.received[i] # bus.published[j]

\* A connection that subscribed after the first publication has been sent
\* the later messages of both tasks and not the first.
C29_Witness ==
    \E c \in Connections :
       /\ bus.conn[c].state = "subscribed"
       /\ bus.conn[c].sub_at = 1
       /\ Len(bus.conn[c].received) = 2
       /\ bus.conn[c].received[1].data.task_id # bus.conn[c].received[2].data.task_id

\* C30 (as stated): STRUCTURE and VALIDATE give the same result on any
\* worker as on the worker that ran the stage before: the extraction depends
\* only on the OCR stage's return value, and the validation review is never
\* the missing-images error when the OCR stage returned paths of images and
\* the extraction carried them forward.
C30_StagesIndependentOfWorker ==
    /\ wk.phase \in {"structured", "validated"} =>
          wk.extraction_result.image_paths =
              (IF wk.ocr_result.text = "empty" THEN {} ELSE wk.ocr_result.image_paths)
    /\ wk.phase = "validated" =>
          (wk.validation_review = "No valid images found for validation")
              = (wk.extraction_result.image_paths = {})

\* Job j has been handed to Celery and its chain has not stopped.
InFlight(j) == pc[j] \notin {"new", "accepted", "done", "failed"}
TerminalEvent(j) == {"completed", "error"} \cap Range(evs[j]) # {}

\* C31: every queued job reaches a terminal state. A job that is in flight
\* leaves that state only by stopping, from some point on no job is in
\* flight any more (no job stays in OCR, STRUCTURE or VALIDATE for ever), and
\* a chain that has stopped has published completed or error for its task_id.
C31_QueuedJobTerminates ==
    /\ [](\A j \in Jobs : Stopped(j) => TerminalEvent(j))
    /\ [][\A j \in Jobs : InFlight(j) => (InFlight(j)' \/ Stopped(j)')]_vars
    /\ <>[](\A j \in Jobs : ~InFlight(j))

\* A job whose validation step raised has stopped with its completed event,
\* and a job that failed in OCR has stopped with its error event.
C31_Witness ==
    /\ \E j \in Jobs : pc[j] = "done" /\ threw[j] = "VALIDATE" /\ "completed" \in Range(evs[j])
    /\ \E j \in Jobs : pc[j] = "failed" /\ threw[j] = "OCR" /\ "error" \in Range(evs[j])

Standalone(j) == pc[j] \notin {"new", "accepted"} /\ batch_id[j] = Null

\* C32: a standalone job performs no decrement and publishes no
\* batch_completed, and no step of its chain changes the counter of a
\* batch, whichever way the chain ends.
C32_StandaloneLeavesCountersAlone ==
    /\ [](\A j \in Jobs : Standalone(j) =>
            /\ decs[j] = 0
            /\ "batch_completed" \notin Range(evs[j])
            /\ pc[j] \notin {"gpt_decr", "gpt_bc", "val_decr", "val_bc", "val_del"})
    /\ [][\A j \in Jobs : (Standalone(j) /\ pc'[j] # pc[j]) => counter' = counter]_vars

\* A standalone job has run to DONE, or has failed in STRUCTURE, while the
\* counter of a batch was set.
C32_Witness ==
    /\ counter # NoKey
    /\ \E j \in Jobs : Standalone(j) /\ pc[j] \in {"done", "failed"} /\ threw[j] \in {"none", "STRUCTURE"}

\* C33 (as stated): for every task at most one completed event is emitted,
\* completed and error never both, and a job that has stopped has exactly
\* one terminal event.
C33_ExactlyOneTerminalEvent ==
    \A j \in Jobs :
        /\ Occurrences(evs[j], "completed") <= 1
        /\ ~("completed" \in Range(evs[j]) /\ "error" \in Range(evs[j]))
        /\ Stopped(j) =>
              Occurrences(evs[j], "completed") + Occurrences(evs[j], "error") = 1

\* C34: a job has published its terminal event by the time it decrements;
\* when batch_completed has been published, every job of the batch has
\* published its terminal event, and none publishes completed or error
\* afterwards.
C34_TerminalEventsBeforeBatchCompleted ==
    /\ [](\A j \in BatchJobs : decs[j] >= 1 => TerminalEvent(j))
    /\ [](BatchCompletedCount >= 1 => \A j \in BatchJobs : TerminalEvent(j))
    /\ [][BatchCompletedCount >= 1 =>
            \A j \in BatchJobs :
               Range(Grew(evs[j], evs'[j])) \cap {"completed", "error"} = {}]_vars

\* batch_completed has been published for a batch of two by the job that
\* finished VALIDATE, after the other job's error event.
C34_Witness ==
    /\ Cardinality(BatchJobs) = 2
    /\ \E j \in BatchJobs :
          /\ "batch_completed" \in Range(evs[j])
          /\ "completed" \in Range(evs[j])
          /\ \E i \in BatchJobs \ {j} : "error" \in Range(evs[i]) /\ decs[i] = 1

\* C35: the counter of a batch exists when the first of its jobs is enqueued;
\* while it exists it accounts for every job of the batch (its value plus the
\* decrements done is the number of jobs), and a job that is about to
\* decrement finds the key present with a positive value, however the
\* enqueueing loop and the workers interleave.
C35_CounterSetBeforeEnqueue ==
    /\ [][\A j \in Jobs : (pc[j] = "accepted" /\ pc'[j] = "queued") => counter # NoKey]_vars
    /\ [](counter # NoKey => counter[1] + TotalDecs = Cardinality(BatchJobs))
    /\ [](\A j \in BatchJobs :
            pc[j] \in {"gpt_decr", "val_decr"} => (counter # NoKey /\ counter[1] >= 1))

\* A worker is about to decrement while the submitting request has not yet
\* enqueued the last job of the batch.
C35_Witness ==
    /\ \E j \in BatchJobs : pc[j] \in {"gpt_decr", "val_decr"}
    /\ \E i \in BatchJobs : pc[i] = "accepted"

AscendingPages(recs) ==
    \A i \in 1..(Len(recs) - 1) : recs[i].page_index < recs[i + 1].page_index

\* C36: the pages classified so far are split between batch_jobs and
\* skipped_pages, each page in exactly one of them and both lists in
\* ascending page order; once the loop has ended the two lengths add up to
\* the number of pages and the jobs handed to batch inference are as many as
\* the pages not skipped; nothing is handed to inference while a page is
\* still to be classified.
C36_PagesPartitioned ==
    /\ [](DocActive =>
            /\ PageIndexes(doc.batch_jobs) \cup PageIndexes(doc.skipped_pages)
                  = 0..(doc.idx - 1)
            /\ PageIndexes(doc.batch_jobs) \cap PageIndexes(doc.skipped_pages) = {}
            /\ AscendingPages(doc.batch_jobs)
            /\ AscendingPages(doc.skipped_pages)
            /\ doc.idx < Len(doc.pages) => (doc.sent = <<>> /\ doc.inference_calls = 0)
            /\ doc.phase \in {"inferred", "returned"} =>
                  /\ Len(doc.batch_jobs) + Len(doc.skipped_pages) = Len(doc.pages)
                  /\ Len(doc.sent) = Len(doc.pages) - Len(doc.skipped_pages)
                  /\ doc.inference_calls = IF Len(doc.sent) > 0 THEN 1 ELSE 0)
    /\ [][(DocActive /\ doc'.inference_calls # doc.inference_calls) =>
             doc.idx = Len(doc.pages)]_vars

\* Inference has run for a document of three pages whose middle page was
\* skipped.
C36_Witness ==
    /\ DocActive
    /\ doc.phase = "inferred"
    /\ Len(doc.pages) = 3
    /\ PageIndexes(doc.sent) = {0, 2}
    /\ PageIndexes(doc.skipped_pages) = {1}
    /\ doc.inference_calls = 1

\* What job j's chain comes to when it stops, given only which stage raised.
ExpectedEnd(j) ==
    CASE threw[j] = "OCR" -> [pc |-> "failed", decs |-> 0, last |-> "OCR_raise"]
      [] threw[j] = "STRUCTURE" ->
            [pc |-> "failed", decs |-> IF InBatch(j) THEN 1 ELSE 0,
             last |-> "STRUCTURE_raise"]
      [] threw[j] = "VALIDATE" -> [pc |-> "done", decs |-> 0, last |-> "VALIDATE_ret"]
      [] OTHER -> [pc |-> "done", decs |-> IF InBatch(j) THEN 1 ELSE 0,
                   last |-> "VALIDATE_ret"]

\* C37: whether or not r.publish raises, a chain ends where the stages'
\* own outcomes put it: same final state, same last stage return or raise,
\* same decrement; a chain fails only after a stage of its own raised; and a
\* batch whose jobs all reached their decrement has a counter of zero or
\* deleted. While r.publish raises nothing is published.
C37_PublishFailureSwallowed ==
    /\ \A j \in Jobs :
          /\ pc[j] = "failed" => threw[j] \in {"OCR", "STRUCTURE"}
          /\ bus.publish_fails => evs[j] = <<>>
          /\ Stopped(j) =>
                /\ pc[j] = ExpectedEnd(j).pc
                /\ decs[j] = ExpectedEnd(j).decs
                /\ hist[j][Len(hist[j])] = ExpectedEnd(j).last
    /\ (BatchJobs # {} /\ AllStopped
          /\ \A j \in BatchJobs : threw[j] \in {"none", "STRUCTURE"})
        => counter \in {NoKey, <<0>>}

\* With r.publish raising, a batch of two has ended, one job by a failed
\* STRUCTURE and one by a finished VALIDATE, both having decremented.
C37_Witness ==
    /\ bus.publish_fails
    /\ AllStopped
    /\ Cardinality(BatchJobs) = 2
    /\ \E j \in BatchJobs : pc[j] = "failed" /\ decs[j] = 1
    /\ \E j \in BatchJobs : pc[j] = "done" /\ decs[j] = 1 /\ threw[j] = "none"
    /\ counter = NoKey

\* C38: a job whose chain has been enqueued has published "started", once,
\* and it is the first event on the task's channel: every progress,
\* step_completed, completed and error event of the task comes after it.
C38_StartedFirst ==
    \A j \in Jobs :
        /\ pc[j] \notin {"new", "accepted", "queued"} => "started" \in Range(evs[j])
        /\ evs[j] # <<>> => evs[j][1] = "started"
        /\ Occurrences(evs[j], "started") <= 1

\* One task has published all of started, progress, step_completed and
\* completed, another started, progress and error.
C38_Witness ==
    /\ \E j \in Jobs :
          {"started", "progress", "step_completed", "completed"} \subseteq Range(evs[j])
    /\ \E j \in Jobs : {"started", "progress", "error"} \subseteq Range(evs[j])

\* C39: on a list of exactly three centres the angle returned by
\* determine_orientation of pdf_processor.py is the angle that
\* determine_orientation of barcode.py returns for the same list.
C39_OrientationsAgreeOnThree ==
    (geo.phase = "oriented" /\ Len(geo.pattern_centers) = 3) =>
        geo.angle = barcode_determine_orientation(geo.pattern_centers)

\* Three centres at equal distances, given out of order, have been oriented
\* (180 degrees), and so could three with the pair at the top.
C39_Witness ==
    /\ geo.phase = "oriented"
    /\ geo.pattern_centers = <<100, 10, 55>>
    /\ geo.angle = 180
    /\ determine_orientation(<<12, 100, 10>>) = 0
====
